---- MODULE Spec2Model ----
(***************************************************************************)
(* TeaBot: the forwards/bans store (src/src/database/repository.py) and    *)
(* the command handlers that gate a publish on ban, cooldown and quota     *)
(* (src/src/handlers/commands.py).                                         *)
(*                                                                         *)
(* Instants are minutes of civil time in the configured timezone, counted  *)
(* from 00:00 of day 0.  The store keeps every timestamp as the ISO text   *)
(* of an aware datetime with offset +03:00, and SQL compares these texts;  *)
(* for one fixed offset the text order is the order of the civil minutes.  *)
(***************************************************************************)
EXTENDS Integers, FiniteSets, Sequences, TLC

\* ------------------------------------------------------------------ bounds
\* Clock advances of one run.
MaxTicks == 8
\* Rows ever inserted into forwards / bans (AUTOINCREMENT never reuses an id).
MaxForwards == 3
MaxBans == 1
\* Updates whose handler can be suspended in a channel send at the same time.
MaxTasks == 2

\* ----------------------------------------------------------- configuration
\* Config.DAILY_LIMIT, read from the environment (the default is 5).
DAILY_LIMIT == 2
\* config.TIMEOUT_MINUTES, read by the handlers.
TIMEOUT_MINUTES == 30
\* Config.TIMEZONE = "Europe/Moscow": datetime.now(tz) carries the zone's
\* current offset, +03:00.
UTC_OFFSET == 180
\* A pytz zone attached with datetime.replace(tzinfo=tz) or datetime(...,
\* tzinfo=tz) is not localized: it carries the zone's first offset, the local
\* mean time LMT+02:30.
LMT_OFFSET == 150
\* Config.GROUP_ID and a chat that is not the group.
GROUP_ID == 100
OtherChat == GROUP_ID + 1
\* Config.ADMINS.
ADMINS == {1}
Users == {1, 2}
Members == Users \ ADMINS

None == 0 - 1
MinutesPerDay == 1440
\* The clock starts at 02:00 of day 1, before the reset hour, and advances by
\* the cooldown, so that an attempt falls exactly on the cooldown's end.
StartTime == MinutesPerDay + 2 * 60
TickMinutes == TIMEOUT_MINUTES
MaxTime == StartTime + MaxTicks * TickMinutes

\* ------------------------------------------------------------------- state
VARIABLES
    config,       \* the settings read from the environment when the bot starts
    now,          \* the system clock, datetime.now(tz)
    forwards,     \* table forwards: rows [id, username, message_type, datetime]
    fwdSeq,       \* sqlite_sequence of forwards: the greatest id ever assigned
    bans,         \* table bans
    banSeq,       \* sqlite_sequence of bans
    tasks,        \* the publish handlers suspended in an awaited channel send
    overlapped,   \* history: some attempt passed its checks while another was in flight
    reply         \* what the latest step answered (op "none" after a clock tick)

vars == <<config, now, forwards, fwdSeq, bans, banSeq, tasks, overlapped, reply>>

\* Config.RESET_HOUR, read from the environment (the default is 4).
RESET_HOUR == config.RESET_HOUR

\* The per-command admin-only flags read by the handlers.
STATS_ADMIN_ONLY == config.STATS_ADMIN_ONLY
RESET_ADMIN_ONLY == config.RESET_ADMIN_ONLY
BAN_ADMIN_ONLY == config.BAN_ADMIN_ONLY
UNBAN_ADMIN_ONLY == config.UNBAN_ADMIN_ONLY

\* Every administrative command restricted to the administrators, and the
\* default reset hour.
AdminOnly ==
    [STATS_ADMIN_ONLY |-> TRUE, RESET_ADMIN_ONLY |-> TRUE,
     BAN_ADMIN_ONLY |-> TRUE, UNBAN_ADMIN_ONLY |-> TRUE, RESET_HOUR |-> 4]

\* ------------------------------------------------------------ civil time
\* datetime.hour of an instant.
HourOf(t) == (t % MinutesPerDay) \div 60

\* now.replace(hour=h, minute=0, second=0, microsecond=0)
ReplaceHour(t, h) == (t \div MinutesPerDay) * MinutesPerDay + h * 60

\* The UTC instant of an aware datetime with civil time t and offset off.
ToUtc(t, off) == t - off

\* today_reset of get_today_count and reset_today.
today_reset_rollback_at_hour(t) ==
    IF HourOf(t) <= RESET_HOUR
    THEN ReplaceHour(t, RESET_HOUR) - MinutesPerDay
    ELSE ReplaceHour(t, RESET_HOUR)
today_reset_no_rollback(t) == ReplaceHour(t, RESET_HOUR)
today_reset(t) ==
    IF HourOf(t) < RESET_HOUR
    THEN ReplaceHour(t, RESET_HOUR) - MinutesPerDay
    ELSE ReplaceHour(t, RESET_HOUR)

\* ------------------------------------------------------------------ users
\* The sender's Telegram profile; "" is an absent part.
Profile(u) ==
    IF u = 1 THEN [username |-> "admin", first_name |-> "Ad", last_name |-> "Min"]
    ELSE [username |-> "", first_name |-> "Ann", last_name |-> ""]

\* message.from_user of an update sent by user u.
User(u) ==
    [id |-> u, username |-> Profile(u).username,
     first_name |-> Profile(u).first_name, last_name |-> Profile(u).last_name]

get_user_display_name(user) ==
    IF user.username # "" THEN "@" \o user.username
    ELSE IF user.first_name # "" /\ user.last_name # ""
         THEN user.first_name \o " " \o user.last_name
    ELSE IF user.first_name # "" THEN user.first_name
    ELSE IF user.last_name # "" THEN user.last_name
    ELSE "Anonymous"

is_admin_everyone(user_id) == TRUE
is_admin(user_id) == user_id \in ADMINS

is_correct_chat_any(chat) == TRUE
is_correct_chat(chat) == chat = GROUP_ID

\* --------------------------------------------------------------- messages
MessageKinds == {"text", "photo", "video", "video_note"}
\* The kinds the updates of the model carry: one that is posted with a single
\* send and the one that is posted with two.
SentKinds == {"text", "video_note"}

\* get_message_type: the kind of content the update carries.
get_message_type(kind) ==
    IF kind = "photo" THEN "photo"
    ELSE IF kind = "video" THEN "video"
    ELSE IF kind = "video_note" THEN "video_note"
    ELSE "text"

\* ------------------------------------------------------------- repository
\* SELECT COUNT(*) FROM forwards WHERE datetime >= today_reset
get_today_count_whole_log == Cardinality(forwards)
get_today_count ==
    Cardinality({f \in forwards : f.datetime >= today_reset(now)})

\* SELECT datetime FROM forwards ORDER BY datetime DESC LIMIT 1
get_last_forward_time ==
    IF forwards = {} THEN None
    ELSE CHOOSE t \in {f.datetime : f \in forwards} :
             \A f \in forwards : f.datetime <= t

\* get_last_forward_time(username): SELECT datetime FROM forwards WHERE
\* username = ? ORDER BY datetime DESC LIMIT 1 (no handler passes a username);
\* an empty username is no username: the latest row of all.
get_last_forward_time_of(username) ==
    IF username = "" THEN get_last_forward_time
    ELSE IF {f \in forwards : f.username = username} = {} THEN None
    ELSE CHOOSE t \in {f.datetime : f \in {g \in forwards : g.username = username}} :
             \A f \in forwards : f.username = username => f.datetime <= t

\* The rows SELECT * FROM bans WHERE user_id = ? AND is_active = 1 AND
\* ban_until > now ranges over.
ActiveBans_inclusive(user_id) ==
    {b \in bans : b.user_id = user_id /\ b.is_active /\ b.ban_until >= now}
ActiveBans(user_id) ==
    {b \in bans : b.user_id = user_id /\ b.is_active /\ b.ban_until > now}

\* ... ORDER BY created_at DESC LIMIT 1; the id of the row, None when there is
\* none.  Rows created at the same clock reading are told apart by their
\* insertion order.
is_user_banned_newest_row(user_id) ==
    LET rows == {b \in bans : b.user_id = user_id /\ b.is_active}
        newest == CHOOSE b \in rows :
                      \A c \in rows :
                          \/ c.created_at < b.created_at
                          \/ c.created_at = b.created_at /\ c.id <= b.id
    IN  IF rows = {} THEN None
        ELSE IF newest.ban_until > now THEN newest.id ELSE None
is_user_banned_longest(user_id) ==
    IF ActiveBans(user_id) = {} THEN None
    ELSE (CHOOSE b \in ActiveBans(user_id) :
             \A c \in ActiveBans(user_id) :
                 \/ c.ban_until < b.ban_until
                 \/ c.ban_until = b.ban_until /\ c.id <= b.id).id
is_user_banned(user_id) ==
    IF ActiveBans(user_id) = {} THEN None
    ELSE (CHOOSE b \in ActiveBans(user_id) :
             \A c \in ActiveBans(user_id) :
                 \/ c.created_at < b.created_at
                 \/ c.created_at = b.created_at /\ c.id <= b.id).id

\* INSERT INTO forwards (username, message_type, datetime), dt = datetime.now(tz);
\* id INTEGER PRIMARY KEY AUTOINCREMENT takes the id after the greatest ever
\* assigned (without AUTOINCREMENT it would be the one after the greatest id
\* in the table).
add_forward_rowid(username, message_type) ==
    /\ forwards' = forwards \cup
           {[id |-> 1 + (IF forwards = {} THEN 0
                         ELSE CHOOSE n \in {f.id : f \in forwards} :
                                  \A f \in forwards : f.id <= n),
             username |-> username, message_type |-> message_type, datetime |-> now]}
    /\ fwdSeq' = fwdSeq + 1
add_forward(username, message_type) ==
    /\ forwards' = forwards \cup {[id |-> fwdSeq + 1, username |-> username,
                                   message_type |-> message_type, datetime |-> now]}
    /\ fwdSeq' = fwdSeq + 1

\* ------------------------------------------------------- publish: checks
NoReply == [op |-> "none", user |-> None, username |-> "", subject |-> None,
            outcome |-> "NONE", sent |-> 0, today_count |-> None, n |-> None,
            chat |-> None, args |-> <<>>, param |-> "", queries |-> {},
            period |-> <<>>, users |-> <<>>, data |-> <<>>, chart |-> "NONE"]

Idle == [pc |-> "idle", user |-> None, username |-> "",
         message_type |-> "", today_count |-> None]

\* time_since_last = now - last_forward_time, where last_forward_time is the
\* stored text parsed and given tzinfo with replace(tzinfo=tz).
time_since_last(last) == ToUtc(now, UTC_OFFSET) - ToUtc(last, LMT_OFFSET)

\* The cooldown check: a latest event exists and time_since_last < timeout_duration.
cooldown_denies_never == FALSE
cooldown_denies ==
    /\ get_last_forward_time # None
    /\ time_since_last(get_last_forward_time) < TIMEOUT_MINUTES

\* The quota check: today_count >= config.DAILY_LIMIT.
quota_denies_off_by_one == get_today_count > DAILY_LIMIT
quota_denies == get_today_count >= DAILY_LIMIT

\* The decision of the synchronous part of cmd_tea / cmd_quot: ban, then
\* cooldown, then quota, the first failing check returning.
publish_outcome_ban_last(user_id) ==
    IF cooldown_denies THEN "TOO_SOON"
    ELSE IF quota_denies THEN "QUOTA_EXCEEDED"
    ELSE IF is_user_banned(user_id) # None THEN "BANNED"
    ELSE "ALLOW"
publish_outcome_quota_first(user_id) ==
    IF is_user_banned(user_id) # None THEN "BANNED"
    ELSE IF quota_denies THEN "QUOTA_EXCEEDED"
    ELSE IF cooldown_denies THEN "TOO_SOON"
    ELSE "ALLOW"
publish_outcome_ban_by_name(user_id) ==
    IF \E b \in bans : /\ b.username = get_user_display_name(Profile(user_id))
                       /\ b.is_active /\ b.ban_until > now
    THEN "BANNED"
    ELSE IF cooldown_denies THEN "TOO_SOON"
    ELSE IF quota_denies THEN "QUOTA_EXCEEDED"
    ELSE "ALLOW"
publish_outcome_own_cooldown(user_id) ==
    LET last == get_last_forward_time_of(get_user_display_name(Profile(user_id)))
    IN  IF is_user_banned(user_id) # None THEN "BANNED"
        ELSE IF last # None /\ time_since_last(last) < TIMEOUT_MINUTES THEN "TOO_SOON"
        ELSE IF quota_denies THEN "QUOTA_EXCEEDED"
        ELSE "ALLOW"
publish_outcome(user_id) ==
    IF is_user_banned(user_id) # None THEN "BANNED"
    ELSE IF cooldown_denies THEN "TOO_SOON"
    ELSE IF quota_denies THEN "QUOTA_EXCEEDED"
    ELSE "ALLOW"

\* The repository calls cmd_tea / cmd_quot made when it reached the outcome:
\* each check returns before the next one's query.
publish_queries_with_top(outcome) ==
    IF outcome = "BANNED" THEN {"is_user_banned"}
    ELSE IF outcome = "TOO_SOON" THEN {"is_user_banned", "get_last_forward_time"}
    ELSE {"is_user_banned", "get_last_forward_time", "get_today_count",
          "get_monthly_top_users"}
publish_queries(outcome) ==
    IF outcome = "BANNED" THEN {"is_user_banned"}
    ELSE IF outcome = "TOO_SOON" THEN {"is_user_banned", "get_last_forward_time"}
    ELSE {"is_user_banned", "get_last_forward_time", "get_today_count"}

FreeSlots == {i \in 1..MaxTasks : tasks[i].pc = "idle"}
Busy == {i \in 1..MaxTasks : tasks[i].pc # "idle"}

\* cmd_tea / cmd_quot up to its first awaited channel send (no await lies
\* between the three checks, so no other handler runs between them); user is
\* message.from_user.  A BANNED answer shows the ban row is_user_banned found.
publish_by(op, chat, user, kind) ==
    IF ~is_correct_chat(chat)
    THEN /\ reply' = [NoReply EXCEPT !.op = op, !.chat = chat, !.outcome = "IGNORED"]
         /\ UNCHANGED <<config, now, forwards, fwdSeq, bans, banSeq, tasks, overlapped>>
    ELSE LET outcome == publish_outcome(user.id)
             r == [NoReply EXCEPT
                     !.op = op, !.chat = chat, !.user = user.id,
                     !.username = get_user_display_name(user),
                     !.outcome = outcome,
                     !.today_count =
                         IF outcome \in {"BANNED", "TOO_SOON"} THEN None
                         ELSE get_today_count,
                     !.n = IF outcome = "BANNED" THEN is_user_banned(user.id) ELSE None,
                     !.queries = publish_queries(outcome)]
         IN  /\ reply' = r
             /\ IF outcome = "ALLOW"
                THEN /\ FreeSlots # {}
                     /\ LET i == CHOOSE j \in FreeSlots : \A k \in FreeSlots : j <= k
                        IN  tasks' = [tasks EXCEPT ![i] =
                                [pc |-> "send", user |-> user.id,
                                 username |-> get_user_display_name(user),
                                 message_type |-> get_message_type(kind),
                                 today_count |-> get_today_count]]
                     /\ overlapped' = (overlapped \/ Busy # {})
                ELSE UNCHANGED <<tasks, overlapped>>
             /\ UNCHANGED <<config, now, forwards, fwdSeq, bans, banSeq>>

publish_start(op, chat, user_id, kind) == publish_by(op, chat, User(user_id), kind)

cmd_tea(chat, user_id, kind) == publish_start("tea", chat, user_id, kind)

cmd_quot(chat, user_id, kind) == publish_start("quot", chat, user_id, kind)

\* ------------------------------------------------- publish: send and record
\* The reply of a finished attempt of task t.
Finished(t, outcome, sent, n) ==
    [NoReply EXCEPT !.op = "publish", !.user = t.user, !.outcome = outcome,
                    !.sent = sent, !.today_count = t.today_count, !.n = n]

\* A video note is sent first and its caption as a second message: the
\* handler is suspended again between the two sends.
send_video_note(i) ==
    /\ tasks[i].pc = "send"
    /\ tasks[i].message_type = "video_note"
    /\ tasks' = [tasks EXCEPT ![i].pc = "send2"]
    /\ reply' = Finished(tasks[i], "SENDING", 1, None)
    /\ UNCHANGED <<config, now, forwards, fwdSeq, bans, banSeq, overlapped>>

LastSend(t) ==
    \/ t.pc = "send" /\ t.message_type # "video_note"
    \/ t.pc = "send2"

\* The last send returns; db_repo.add_forward(username, message_type) follows
\* with no await in between, then the "sent, N left" answer.
send_and_record(i) ==
    /\ LastSend(tasks[i])
    /\ add_forward(tasks[i].username, tasks[i].message_type)
    /\ tasks' = [tasks EXCEPT ![i] = Idle]
    /\ reply' = Finished(tasks[i], "SENT", IF tasks[i].pc = "send2" THEN 2 ELSE 1,
                         DAILY_LIMIT - tasks[i].today_count - 1)
    /\ UNCHANGED <<config, now, bans, banSeq, overlapped>>

\* A send raises TelegramAPIError: the handler answers with the failure and
\* returns without add_forward.
send_fails_recording(i) ==
    /\ tasks[i].pc \in {"send", "send2"}
    /\ add_forward(tasks[i].username, tasks[i].message_type)
    /\ tasks' = [tasks EXCEPT ![i] = Idle]
    /\ reply' = Finished(tasks[i], "SEND_ERROR", IF tasks[i].pc = "send2" THEN 1 ELSE 0, None)
    /\ UNCHANGED <<config, now, bans, banSeq, overlapped>>
send_fails(i) ==
    /\ tasks[i].pc \in {"send", "send2"}
    /\ tasks' = [tasks EXCEPT ![i] = Idle]
    /\ reply' = Finished(tasks[i], "SEND_ERROR", IF tasks[i].pc = "send2" THEN 1 ELSE 0, None)
    /\ UNCHANGED <<config, now, forwards, fwdSeq, bans, banSeq, overlapped>>

\* The last send returns and add_forward raises (the transaction rolls back):
\* caught by the handler's except Exception.
record_fails(i) ==
    /\ LastSend(tasks[i])
    /\ tasks' = [tasks EXCEPT ![i] = Idle]
    /\ reply' = Finished(tasks[i], "STORE_ERROR", IF tasks[i].pc = "send2" THEN 2 ELSE 1, None)
    /\ UNCHANGED <<config, now, forwards, fwdSeq, bans, banSeq, overlapped>>

\* ------------------------------------------------------------------ reset
\* today_reset as reset_today computes it, in its own copy of the rule.
reset_today_start_no_rollback(t) == ReplaceHour(t, RESET_HOUR)
reset_today_start(t) ==
    IF HourOf(t) < RESET_HOUR
    THEN ReplaceHour(t, RESET_HOUR) - MinutesPerDay
    ELSE ReplaceHour(t, RESET_HOUR)

\* DELETE FROM forwards WHERE datetime >= today_reset; the rows deleted.
reset_today_rows_after == {f \in forwards : f.datetime > reset_today_start(now)}
reset_today_rows_all == forwards
reset_today_rows == {f \in forwards : f.datetime >= reset_today_start(now)}

cmd_reset(chat, user_id) ==
    IF ~is_correct_chat(chat)
    THEN /\ reply' = [NoReply EXCEPT !.op = "reset", !.chat = chat, !.outcome = "IGNORED"]
         /\ UNCHANGED <<config, now, forwards, fwdSeq, bans, banSeq, tasks, overlapped>>
    ELSE IF RESET_ADMIN_ONLY /\ ~is_admin(user_id)
    THEN /\ reply' = [NoReply EXCEPT !.op = "reset", !.chat = chat, !.user = user_id,
                                     !.outcome = "REFUSED"]
         /\ UNCHANGED <<config, now, forwards, fwdSeq, bans, banSeq, tasks, overlapped>>
    ELSE /\ forwards' = forwards \ reset_today_rows
         /\ reply' = [NoReply EXCEPT !.op = "reset", !.chat = chat, !.user = user_id,
                                     !.outcome = "OK",
                                     !.n = Cardinality(reset_today_rows),
                                     !.queries = {"reset_today"}]
         /\ UNCHANGED <<config, now, fwdSeq, bans, banSeq, tasks, overlapped>>

\* --------------------------------------------------------------- calendar
\* Day 0 of the civil minutes is 1 January of the year of the statistics'
\* earliest start, datetime(2000, 1, 1, 0, 0, 0): a Saturday, weekday() = 5.
EpochYear == 2000
EpochWeekday == 5

IsLeap(y) == (y % 4 = 0 /\ y % 100 # 0) \/ y % 400 = 0

DaysInYear(y) == IF IsLeap(y) THEN 366 ELSE 365

DaysInMonth(y, m) ==
    IF m = 2 THEN (IF IsLeap(y) THEN 29 ELSE 28)
    ELSE IF m \in {4, 6, 9, 11} THEN 30
    ELSE 31

\* The leap years before year y, and the days from day 0 to 1 January of y.
LeapsBefore(y) == (y - 1) \div 4 - (y - 1) \div 100 + (y - 1) \div 400
DaysBeforeYear(y) ==
    (y - EpochYear) * 365 + LeapsBefore(y) - LeapsBefore(EpochYear)

\* The days of a common year before the first of each month.
DaysBeforeMonthTable == <<0, 31, 59, 90, 120, 151, 181, 212, 243, 273, 304, 334>>
DaysBeforeMonth(y, m) ==
    DaysBeforeMonthTable[m] + (IF m > 2 /\ IsLeap(y) THEN 1 ELSE 0)

\* datetime(y, m, d, h, mi, 0): the civil minute of a date and a time of day.
DateTime(y, m, d, h, mi) ==
    ((DaysBeforeYear(y) + DaysBeforeMonth(y, m) + d - 1) * 24 + h) * 60 + mi

\* datetime.year, .month, .day and .weekday() (0 = Monday) of an instant.
YearOf(t) ==
    LET d == t \div MinutesPerDay
        RECURSIVE YearFrom(_)
        YearFrom(y) ==
            IF d < DaysBeforeYear(y) THEN YearFrom(y - 1)
            ELSE IF d >= DaysBeforeYear(y + 1) THEN YearFrom(y + 1)
            ELSE y
    IN  YearFrom(EpochYear + d \div 366)
MonthOf(t) ==
    LET y == YearOf(t)
        d == t \div MinutesPerDay - DaysBeforeYear(y)
    IN  CHOOSE m \in 1..12 :
            /\ DaysBeforeMonth(y, m) <= d
            /\ d < DaysBeforeMonth(y, m) + DaysInMonth(y, m)
DayOf(t) ==
    t \div MinutesPerDay - DaysBeforeYear(YearOf(t))
        - DaysBeforeMonth(YearOf(t), MonthOf(t)) + 1
WeekdayOf(t) == (t \div MinutesPerDay + EpochWeekday) % 7

\* ------------------------------------------------------------------- text
\* A text is a string of ASCII characters; its i-th character is
\* SubSeq(s, i, i).
\* The characters str.strip() drops: the space, the tab, the line feed, the
\* carriage return, the form feed, the vertical tab (0x0B) and the four
\* separators 0x1C..0x1F, the last five written as the characters themselves.
Whitespace == {" ", "\t", "\n", "\r", "\f", "", "", "", "", ""}

\* str.strip(): the text without the whitespace at its ends.
RECURSIVE StripLeft(_)
StripLeft(s) ==
    IF s # "" /\ SubSeq(s, 1, 1) \in Whitespace
    THEN StripLeft(SubSeq(s, 2, Len(s))) ELSE s
RECURSIVE StripRight(_)
StripRight(s) ==
    IF s # "" /\ SubSeq(s, Len(s), Len(s)) \in Whitespace
    THEN StripRight(SubSeq(s, 1, Len(s) - 1)) ELSE s
Strip(s) == StripRight(StripLeft(s))

\* str.lower(): every letter A..Z replaced by its small letter.
LowerCase ==
    ("A" :> "a") @@ ("B" :> "b") @@ ("C" :> "c") @@ ("D" :> "d") @@ ("E" :> "e")
        @@ ("F" :> "f") @@ ("G" :> "g") @@ ("H" :> "h") @@ ("I" :> "i") @@ ("J" :> "j")
        @@ ("K" :> "k") @@ ("L" :> "l") @@ ("M" :> "m") @@ ("N" :> "n") @@ ("O" :> "o")
        @@ ("P" :> "p") @@ ("Q" :> "q") @@ ("R" :> "r") @@ ("S" :> "s") @@ ("T" :> "t")
        @@ ("U" :> "u") @@ ("V" :> "v") @@ ("W" :> "w") @@ ("X" :> "x") @@ ("Y" :> "y")
        @@ ("Z" :> "z")
RECURSIVE LowerText(_)
LowerText(s) ==
    LET c == SubSeq(s, 1, 1)
        small == IF c \in DOMAIN LowerCase THEN LowerCase[c] ELSE c
    IN  IF s = "" THEN "" ELSE small \o LowerText(SubSeq(s, 2, Len(s)))

\* " ".join(words)
RECURSIVE JoinWords(_)
JoinWords(words) ==
    IF words = <<>> THEN ""
    ELSE IF Len(words) = 1 THEN words[1]
    ELSE words[1] \o " " \o JoinWords(Tail(words))

\* int(tok): whitespace at the ends is dropped, then comes an optional sign
\* and decimal digits, between two of which a single underscore may stand.
DigitValue ==
    ("0" :> 0) @@ ("1" :> 1) @@ ("2" :> 2) @@ ("3" :> 3) @@ ("4" :> 4)
        @@ ("5" :> 5) @@ ("6" :> 6) @@ ("7" :> 7) @@ ("8" :> 8) @@ ("9" :> 9)

\* The token without the whitespace int() drops at its ends: that of
\* str.strip() but for the separators 0x1C..0x1F, which int() rejects.
IntStrip(tok) ==
    LET space == Whitespace \ {"", "", "", ""}
        kept == {i \in 1..Len(tok) : SubSeq(tok, i, i) \notin space}
        first == CHOOSE i \in kept : \A j \in kept : i <= j
        last == CHOOSE i \in kept : \A j \in kept : j <= i
    IN  IF kept = {} THEN "" ELSE SubSeq(tok, first, last)

\* The token without its whitespace and its sign.
Unsigned(tok) ==
    LET s == IntStrip(tok)
    IN  IF s # "" /\ SubSeq(s, 1, 1) \in {"+", "-"} THEN SubSeq(s, 2, Len(s)) ELSE s

\* int(tok) returns (it raises ValueError otherwise, also on more digits than
\* the interpreter converts, 4300 unless set otherwise).
IsIntToken(tok) ==
    LET body == Unsigned(tok)
        IsDigit(c) == c \in DOMAIN DigitValue
    IN  /\ body # ""
        /\ \/ Len(body) <= 4300
           \/ Cardinality({i \in 1..Len(body) : SubSeq(body, i, i) # "_"}) <= 4300
        /\ \A i \in 1..Len(body) :
               \/ IsDigit(SubSeq(body, i, i))
               \/ /\ SubSeq(body, i, i) = "_"
                  /\ 1 < i /\ i < Len(body)
                  /\ IsDigit(SubSeq(body, i - 1, i - 1))
                  /\ IsDigit(SubSeq(body, i + 1, i + 1))

\* int(tok) has ten digits or more after its leading zeros: a value of
\* 10^9 at least, or of -10^9 at most.
IsHugeInt(tok) ==
    LET RECURSIVE Significant(_, _)
        Significant(body, leading) ==
            IF body = "" THEN 0
            ELSE IF SubSeq(body, 1, 1) = "_" \/ (leading /\ SubSeq(body, 1, 1) = "0")
            THEN Significant(SubSeq(body, 2, Len(body)), leading)
            ELSE 1 + Significant(SubSeq(body, 2, Len(body)), FALSE)
    IN  Significant(Unsigned(tok), TRUE) > 9

\* The value int(tok) returns, for a value between -10^9 and 10^9.
ParseInt(tok) ==
    LET RECURSIVE DigitsValue(_, _)
        DigitsValue(body, acc) ==
            IF body = "" THEN acc
            ELSE IF SubSeq(body, 1, 1) = "_"
            THEN DigitsValue(SubSeq(body, 2, Len(body)), acc)
            ELSE DigitsValue(SubSeq(body, 2, Len(body)),
                             acc * 10 + DigitValue[SubSeq(body, 1, 1)])
    IN  IF SubSeq(IntStrip(tok), 1, 1) = "-" THEN 0 - DigitsValue(Unsigned(tok), 0)
        ELSE DigitsValue(Unsigned(tok), 0)

\* -------------------------------------------------------------------- bans
\* Decimal tokens around the month numbers 1..12.
IntTokens ==
    <<"-1", "0", "1", "2", "3", "4", "5", "6", "7", "8", "9", "10", "11", "12", "13">>

\* now + timedelta(hours=hours) raises OverflowError: the sum lies past
\* 31 December 9999, the last day of a datetime, or before 1 January of
\* year 1, the first.
add_ban_raises(hours) ==
    \/ hours + now \div 60 >= DaysBeforeYear(10000) * 24
    \/ hours + now \div 60 < DaysBeforeYear(1) * 24

\* INSERT INTO bans: ban_until = now + timedelta(hours=hours), created_at = now;
\* nothing is written when the sum raises.
add_ban(user_id, username, banned_by, banned_by_username, hours, reason) ==
    IF add_ban_raises(hours) THEN UNCHANGED <<bans, banSeq>>
    ELSE /\ bans' = bans \cup {[id |-> banSeq + 1, user_id |-> user_id,
                                username |-> username, banned_by |-> banned_by,
                                banned_by_username |-> banned_by_username,
                                reason |-> reason, ban_until |-> now + hours * 60,
                                created_at |-> now, is_active |-> TRUE]}
         /\ banSeq' = banSeq + 1

\* UPDATE bans SET is_active = 0 WHERE user_id = ? AND is_active = 1; the rows updated.
remove_ban_rows_latest(user_id) == {b \in bans : b.id = is_user_banned(user_id)}
remove_ban_rows(user_id) == {b \in bans : b.user_id = user_id /\ b.is_active}

remove_ban_deleting(user_id) ==
    bans' = bans \ remove_ban_rows(user_id)
remove_ban(user_id) ==
    bans' = {IF b \in remove_ban_rows(user_id) THEN [b EXCEPT !.is_active = FALSE] ELSE b :
                 b \in bans}

\* /ban: args are the words after the command (args[1] the hours, args[2:] the
\* reason), target the sender of the replied-to message (None without one).
cmd_ban_no_immunity(chat, user_id, args, target) ==
    LET answer(outcome) ==
            /\ reply' = [NoReply EXCEPT !.op = "ban", !.chat = chat, !.user = user_id,
                                        !.args = args, !.subject = target,
                                        !.outcome = outcome]
            /\ UNCHANGED <<config, now, forwards, fwdSeq, bans, banSeq, tasks, overlapped>>
        \* hours <= 0, and add_ban raising OverflowError on hours.
        not_positive ==
            IF IsHugeInt(args[2]) THEN SubSeq(IntStrip(args[2]), 1, 1) = "-"
            ELSE ParseInt(args[2]) <= 0
        raises == IsHugeInt(args[2]) \/ add_ban_raises(ParseInt(args[2]))
    IN
    IF ~is_correct_chat(chat)
    THEN /\ reply' = [NoReply EXCEPT !.op = "ban", !.chat = chat, !.outcome = "IGNORED"]
         /\ UNCHANGED <<config, now, forwards, fwdSeq, bans, banSeq, tasks, overlapped>>
    ELSE IF BAN_ADMIN_ONLY /\ ~is_admin(user_id) THEN answer("REFUSED")
    ELSE IF Len(args) < 2 THEN answer("BAD_FORMAT")
    ELSE IF ~IsIntToken(args[2]) THEN answer("BAD_HOURS")
    ELSE IF not_positive THEN answer("BAD_HOURS")
    ELSE IF target = None THEN answer("NEED_REPLY")
    ELSE IF raises
    THEN /\ reply' = [NoReply EXCEPT !.op = "ban", !.chat = chat, !.user = user_id,
                                     !.args = args, !.subject = target,
                                     !.outcome = "RAISED", !.queries = {"add_ban"}]
         /\ UNCHANGED <<config, now, forwards, fwdSeq, bans, banSeq, tasks, overlapped>>
    ELSE /\ add_ban(target, get_user_display_name(Profile(target)), user_id,
                    get_user_display_name(Profile(user_id)), ParseInt(args[2]),
                    IF Len(args) > 2 THEN JoinWords(SubSeq(args, 3, Len(args))) ELSE "")
         /\ reply' = [NoReply EXCEPT !.op = "ban", !.chat = chat, !.user = user_id,
                                     !.args = args, !.subject = target,
                                     !.outcome = "OK", !.n = banSeq + 1,
                                     !.queries = {"add_ban"}]
         /\ UNCHANGED <<config, now, forwards, fwdSeq, tasks, overlapped>>
cmd_ban_any_hours(chat, user_id, args, target) ==
    LET answer(outcome) ==
            /\ reply' = [NoReply EXCEPT !.op = "ban", !.chat = chat, !.user = user_id,
                                        !.args = args, !.subject = target,
                                        !.outcome = outcome]
            /\ UNCHANGED <<config, now, forwards, fwdSeq, bans, banSeq, tasks, overlapped>>
        \* hours <= 0, and add_ban raising OverflowError on hours.
        not_positive ==
            IF IsHugeInt(args[2]) THEN SubSeq(IntStrip(args[2]), 1, 1) = "-"
            ELSE ParseInt(args[2]) <= 0
        raises == IsHugeInt(args[2]) \/ add_ban_raises(ParseInt(args[2]))
    IN
    IF ~is_correct_chat(chat)
    THEN /\ reply' = [NoReply EXCEPT !.op = "ban", !.chat = chat, !.outcome = "IGNORED"]
         /\ UNCHANGED <<config, now, forwards, fwdSeq, bans, banSeq, tasks, overlapped>>
    ELSE IF BAN_ADMIN_ONLY /\ ~is_admin(user_id) THEN answer("REFUSED")
    ELSE IF Len(args) < 2 THEN answer("BAD_FORMAT")
    ELSE IF ~IsIntToken(args[2]) THEN answer("BAD_HOURS")
    ELSE IF target = None THEN answer("NEED_REPLY")
    ELSE IF target \in ADMINS THEN answer("ADMIN_TARGET")
    ELSE IF raises
    THEN /\ reply' = [NoReply EXCEPT !.op = "ban", !.chat = chat, !.user = user_id,
                                     !.args = args, !.subject = target,
                                     !.outcome = "RAISED", !.queries = {"add_ban"}]
         /\ UNCHANGED <<config, now, forwards, fwdSeq, bans, banSeq, tasks, overlapped>>
    ELSE /\ add_ban(target, get_user_display_name(Profile(target)), user_id,
                    get_user_display_name(Profile(user_id)), ParseInt(args[2]),
                    IF Len(args) > 2 THEN JoinWords(SubSeq(args, 3, Len(args))) ELSE "")
         /\ reply' = [NoReply EXCEPT !.op = "ban", !.chat = chat, !.user = user_id,
                                     !.args = args, !.subject = target,
                                     !.outcome = "OK", !.n = banSeq + 1,
                                     !.queries = {"add_ban"}]
         /\ UNCHANGED <<config, now, forwards, fwdSeq, tasks, overlapped>>
cmd_ban(chat, user_id, args, target) ==
    LET answer(outcome) ==
            /\ reply' = [NoReply EXCEPT !.op = "ban", !.chat = chat, !.user = user_id,
                                        !.args = args, !.subject = target,
                                        !.outcome = outcome]
            /\ UNCHANGED <<config, now, forwards, fwdSeq, bans, banSeq, tasks, overlapped>>
        \* hours <= 0, and add_ban raising OverflowError on hours.
        not_positive ==
            IF IsHugeInt(args[2]) THEN SubSeq(IntStrip(args[2]), 1, 1) = "-"
            ELSE ParseInt(args[2]) <= 0
        raises == IsHugeInt(args[2]) \/ add_ban_raises(ParseInt(args[2]))
    IN
    IF ~is_correct_chat(chat)
    THEN /\ reply' = [NoReply EXCEPT !.op = "ban", !.chat = chat, !.outcome = "IGNORED"]
         /\ UNCHANGED <<config, now, forwards, fwdSeq, bans, banSeq, tasks, overlapped>>
    ELSE IF BAN_ADMIN_ONLY /\ ~is_admin(user_id) THEN answer("REFUSED")
    ELSE IF Len(args) < 2 THEN answer("BAD_FORMAT")
    ELSE IF ~IsIntToken(args[2]) THEN answer("BAD_HOURS")
    ELSE IF not_positive THEN answer("BAD_HOURS")
    ELSE IF target = None THEN answer("NEED_REPLY")
    ELSE IF target \in ADMINS THEN answer("ADMIN_TARGET")
    ELSE IF raises
    THEN /\ reply' = [NoReply EXCEPT !.op = "ban", !.chat = chat, !.user = user_id,
                                     !.args = args, !.subject = target,
                                     !.outcome = "RAISED", !.queries = {"add_ban"}]
         /\ UNCHANGED <<config, now, forwards, fwdSeq, bans, banSeq, tasks, overlapped>>
    ELSE /\ add_ban(target, get_user_display_name(Profile(target)), user_id,
                    get_user_display_name(Profile(user_id)), ParseInt(args[2]),
                    IF Len(args) > 2 THEN JoinWords(SubSeq(args, 3, Len(args))) ELSE "")
         /\ reply' = [NoReply EXCEPT !.op = "ban", !.chat = chat, !.user = user_id,
                                     !.args = args, !.subject = target,
                                     !.outcome = "OK", !.n = banSeq + 1,
                                     !.queries = {"add_ban"}]
         /\ UNCHANGED <<config, now, forwards, fwdSeq, tasks, overlapped>>

\* /unban: nargs is the number of words after the command.
cmd_unban(chat, user_id, nargs, target) ==
    LET answer(outcome) ==
            /\ reply' = [NoReply EXCEPT !.op = "unban", !.chat = chat, !.user = user_id,
                                        !.subject = target, !.outcome = outcome,
                                        !.queries = IF outcome = "NOT_BANNED"
                                                    THEN {"is_user_banned"} ELSE {}]
            /\ UNCHANGED <<config, now, forwards, fwdSeq, bans, banSeq, tasks, overlapped>>
    IN
    IF ~is_correct_chat(chat)
    THEN /\ reply' = [NoReply EXCEPT !.op = "unban", !.chat = chat, !.outcome = "IGNORED"]
         /\ UNCHANGED <<config, now, forwards, fwdSeq, bans, banSeq, tasks, overlapped>>
    ELSE IF UNBAN_ADMIN_ONLY /\ ~is_admin(user_id) THEN answer("REFUSED")
    ELSE IF target = None
    THEN (IF nargs < 1 THEN answer("BAD_FORMAT") ELSE answer("NEED_REPLY"))
    ELSE IF is_user_banned(target) = None THEN answer("NOT_BANNED")
    ELSE /\ remove_ban(target)
         /\ reply' = [NoReply EXCEPT
                        !.op = "unban", !.chat = chat, !.user = user_id,
                        !.subject = target,
                        !.queries = {"is_user_banned", "remove_ban"},
                        !.outcome = IF Cardinality(remove_ban_rows(target)) > 0
                                    THEN "OK" ELSE "ERROR",
                        !.n = Cardinality(remove_ban_rows(target))]
         /\ UNCHANGED <<config, now, forwards, fwdSeq, banSeq, tasks, overlapped>>

\* ------------------------------------------------ repository: statistics
\* strftime(format, datetime) of SQLite: the stored text ends in the offset
\* +03:00, which SQLite applies, so the fields it formats are those of the
\* UTC instant.  %w counts the weekday from Sunday = 0.
SqlUtc(t) == ToUtc(t, UTC_OFFSET)
strftime_Y(t) == YearOf(SqlUtc(t))
strftime_m(t) == MonthOf(SqlUtc(t))
strftime_d(t) == DayOf(SqlUtc(t))
strftime_H(t) == HourOf(SqlUtc(t))
strftime_w(t) == (WeekdayOf(SqlUtc(t)) + 1) % 7

\* The rows of WHERE datetime >= ? AND datetime < ?: SQL compares the texts,
\* which order the rows and the bounds by their civil time whatever offset the
\* bound carries.
InPeriod(start_date, end_date) ==
    {f \in forwards : f.datetime >= start_date /\ f.datetime < end_date}

\* SELECT username, COUNT(*) as count FROM rows GROUP BY username
UserCounts(rows) ==
    {[username |-> u, count |-> Cardinality({f \in rows : f.username = u})] :
         u \in {f.username : f \in rows}}

\* ... ORDER BY count DESC: every order of the groups with the counts
\* descending (SQL leaves the order of equal counts open).
Rankings_ascending(rows) ==
    {s \in [1..Cardinality(UserCounts(rows)) -> UserCounts(rows)] :
         /\ \A i, j \in DOMAIN s : i # j => s[i] # s[j]
         /\ \A i, j \in DOMAIN s : i < j => s[i].count <= s[j].count}
Rankings(rows) ==
    {s \in [1..Cardinality(UserCounts(rows)) -> UserCounts(rows)] :
         /\ \A i, j \in DOMAIN s : i # j => s[i] # s[j]
         /\ \A i, j \in DOMAIN s : i < j => s[i].count >= s[j].count}

\* ... LIMIT ?: the first limit rows, every row on a negative limit.
Limit(s, limit) ==
    IF limit < 0 THEN s
    ELSE [i \in 1..(IF Len(s) < limit THEN Len(s) ELSE limit) |-> s[i]]

get_users_stats_in_period(start_date, end_date) ==
    Rankings(InPeriod(start_date, end_date))

\* month_start = now.replace(day=1, hour=0, minute=0, second=0, microsecond=0)
get_monthly_top_users(limit) ==
    {Limit(s, limit) :
         s \in Rankings({f \in forwards :
                            f.datetime >= DateTime(YearOf(now), MonthOf(now), 1, 0, 0)})}

\* The first instant of the month after (year, month_number).
month_end_of(year, month_number) ==
    IF month_number = 12 THEN DateTime(year + 1, 1, 1, 0, 0)
    ELSE DateTime(year, month_number + 1, 1, 0, 0)

\* get_stats_by_month: total_count and the users of [month_start, month_end);
\* users is the set of the orders the ranking can come in.
get_stats_by_month(month_number, year) ==
    LET rows == InPeriod(DateTime(year, month_number, 1, 0, 0),
                         month_end_of(year, month_number))
    IN  [total_count |-> Cardinality(rows), users |-> Rankings(rows)]

\* get_stats_by_year: monthly_stats holds the months GROUP BY month finds, in
\* order; a month without a row has no entry.
get_stats_by_year(year) ==
    LET rows == InPeriod(DateTime(year, 1, 1, 0, 0), DateTime(year + 1, 1, 1, 0, 0))
        count(m) == Cardinality({f \in rows : strftime_m(f.datetime) = m})
    IN  [total_count |-> Cardinality(rows), users |-> Rankings(rows),
         monthly_stats |->
             SelectSeq([m \in 1..12 |-> [month |-> m, count |-> count(m)]],
                       LAMBDA r : r.count > 0)]

\* get_stats_all_time: yearly_stats holds the years GROUP BY year finds, in
\* order.
get_stats_all_time ==
    LET years == {strftime_Y(f.datetime) : f \in forwards}
        first == CHOOSE y \in years : \A z \in years : y <= z
        last == CHOOSE y \in years : \A z \in years : z <= y
        count(y) == Cardinality({f \in forwards : strftime_Y(f.datetime) = y})
    IN  [total_count |-> Cardinality(forwards), users |-> Rankings(forwards),
         yearly_stats |->
             IF years = {} THEN <<>>
             ELSE SelectSeq([i \in 1..(last - first + 1) |->
                                [year |-> first + i - 1, count |-> count(first + i - 1)]],
                            LAMBDA r : r.count > 0)]

\* sum(item['count'] for item in stats_data)
RECURSIVE SumCounts(_)
SumCounts(stats_data) ==
    IF stats_data = <<>> THEN 0
    ELSE Head(stats_data).count + SumCounts(Tail(stats_data))

\* get_stats_by_hours: the rows grouped by strftime('%H'), every hour of
\* range(24) filled in.
get_stats_by_hours(start_date, end_date) ==
    LET rows == InPeriod(start_date, end_date)
    IN  [i \in 1..24 |->
            [hour |-> i - 1,
             count |-> Cardinality({f \in rows : strftime_H(f.datetime) = i - 1})]]

\* The CASE of get_stats_by_weekdays: 0 (Sunday) becomes 6, w becomes w - 1.
weekday_remap(w) == IF w = 0 THEN 6 ELSE w - 1

\* get_stats_by_weekdays: every day of range(7) filled in.
get_stats_by_weekdays(start_date, end_date) ==
    LET rows == InPeriod(start_date, end_date)
    IN  [i \in 1..7 |->
            [weekday |-> i - 1,
             count |-> Cardinality({f \in rows :
                                       weekday_remap(strftime_w(f.datetime)) = i - 1})]]

\* days_in_month = (month_end - month_start).days
days_in_month(month_number, year) ==
    (month_end_of(year, month_number) - DateTime(year, month_number, 1, 0, 0))
        \div MinutesPerDay

\* get_stats_by_days: the rows of the month grouped by strftime('%d'), every
\* day of range(1, days_in_month + 1) filled in.
get_stats_by_days(month_number, year) ==
    LET rows == InPeriod(DateTime(year, month_number, 1, 0, 0),
                         month_end_of(year, month_number))
    IN  [d \in 1..days_in_month(month_number, year) |->
            [day |-> d,
             count |-> Cardinality({f \in rows : strftime_d(f.datetime) = d})]]

\* ------------------------------------------------------------------ stats
\* param = command_parts[1].lower().strip(); "" stands for no parameter.
Lower(tok) == Strip(LowerText(tok))

\* The month branch of cmd_stats: the year of the requested month, whether
\* that lies ahead of the current month, and how many months back it is.
month_target_year_current(month_number, current_month, current_year) == current_year
month_target_year(month_number, current_month, current_year) ==
    IF month_number > current_month THEN current_year - 1 ELSE current_year

month_in_future(month_number, target_year, current_month, current_year) ==
    \/ target_year > current_year
    \/ target_year = current_year /\ month_number > current_month

months_ago(month_number, target_year, current_month, current_year) ==
    IF target_year = current_year THEN current_month - month_number
    ELSE (current_year - target_year) * 12 + (current_month - month_number)

\* What became of the chart of a /stats answer: none is drawn without data
\* (drawn is the branch's condition for drawing one); chart_ok tells whether
\* create_*_chart and message.answer_photo both returned.
chart_attempt(drawn, chart_ok) ==
    IF ~drawn THEN "NONE" ELSE IF chart_ok THEN "SENT" ELSE "FAILED"

\* The answer that follows: the chart with stats_text as its caption, or in
\* the chart's except Exception stats_text with the note that no chart could
\* be made, or stats_text alone.
stats_outcome_error(chart) ==
    IF chart = "SENT" THEN "CHART" ELSE IF chart = "FAILED" THEN "ERROR" ELSE "TEXT"
stats_outcome(chart) ==
    IF chart = "SENT" THEN "CHART" ELSE IF chart = "FAILED" THEN "CHART_FAILED" ELSE "TEXT"

\* all_time_end = now: the clock reading of the call, with its seconds, lies
\* after every row recorded before the call, those of the present minute
\* included.
all_time_end == now + 1

\* /stats [param]; chart_ok tells whether the chart is drawn and sent.
cmd_stats(chat, user_id, text, chart_ok) ==
    LET param == Lower(text)
        base == [NoReply EXCEPT !.op = "stats", !.chat = chat, !.user = user_id,
                                !.param = param]
        answer(r) ==
            /\ reply' = r
            /\ UNCHANGED <<config, now, forwards, fwdSeq, bans, banSeq, tasks, overlapped>>
        charted(total) == stats_outcome(chart_attempt(total > 0, chart_ok))
        all_time_start == DateTime(EpochYear, 1, 1, 0, 0)
    IN
    IF ~is_correct_chat(chat)
    THEN answer([NoReply EXCEPT !.op = "stats", !.chat = chat, !.outcome = "IGNORED"])
    ELSE IF STATS_ADMIN_ONLY /\ ~is_admin(user_id)
    THEN answer([NoReply EXCEPT !.op = "stats", !.chat = chat, !.user = user_id,
                                !.outcome = "REFUSED"])
    ELSE IF param = ""
    THEN \E top \in get_monthly_top_users(3) :
             answer([base EXCEPT
                 !.outcome = "TODAY",
                 !.today_count = get_today_count,
                 !.n = IF DAILY_LIMIT - get_today_count > 0
                       THEN DAILY_LIMIT - get_today_count ELSE 0,
                 !.users = top,
                 !.queries = {"get_today_count", "get_last_forward_time",
                              "get_monthly_top_users"}])
    ELSE IF param \in {"hour", "hours"}
    THEN LET stats_data == get_stats_by_hours(all_time_start, all_time_end)
             total_count == SumCounts(stats_data)
         IN  \E users \in get_users_stats_in_period(all_time_start, all_time_end) :
                 answer([base EXCEPT
                     !.outcome = IF total_count = 0 THEN "NO_DATA"
                                 ELSE charted(total_count),
                     !.n = total_count, !.users = users, !.data = stats_data,
                     !.chart = chart_attempt(total_count > 0, chart_ok),
                     !.queries = {"get_stats_by_hours", "get_users_stats_in_period"}])
    ELSE IF param \in {"weekday", "weekdays"}
    THEN LET stats_data == get_stats_by_weekdays(all_time_start, all_time_end)
             total_count == SumCounts(stats_data)
         IN  \E users \in get_users_stats_in_period(all_time_start, all_time_end) :
                 answer([base EXCEPT
                     !.outcome = IF total_count = 0 THEN "NO_DATA"
                                 ELSE charted(total_count),
                     !.n = total_count, !.users = users, !.data = stats_data,
                     !.chart = chart_attempt(total_count > 0, chart_ok),
                     !.queries = {"get_stats_by_weekdays", "get_users_stats_in_period"}])
    ELSE IF param = "year"
    THEN LET stats == get_stats_by_year(YearOf(now))
         IN  \E users \in stats.users :
                 answer([base EXCEPT
                     !.outcome = IF stats.monthly_stats # <<>>
                                 THEN charted(stats.total_count) ELSE "TEXT",
                     !.n = stats.total_count, !.users = users,
                     !.period = <<YearOf(now)>>, !.data = stats.monthly_stats,
                     !.chart = chart_attempt(stats.monthly_stats # <<>>
                                                 /\ stats.total_count > 0, chart_ok),
                     !.queries = {"get_stats_by_year"}])
    ELSE IF param = "all"
    THEN LET stats == get_stats_all_time
         IN  \E users \in stats.users :
                 answer([base EXCEPT
                     !.outcome = "TEXT", !.n = stats.total_count,
                     !.users = Limit(users, 20), !.data = stats.yearly_stats,
                     !.queries = {"get_stats_all_time"}])
    ELSE IF ~IsIntToken(param) THEN answer([base EXCEPT !.outcome = "INVALID"])
    ELSE IF IsHugeInt(param) \/ ParseInt(param) < 1 \/ ParseInt(param) > 12
    THEN answer([base EXCEPT !.outcome = "INVALID"])
    ELSE LET month_number == ParseInt(param)
             current_month == MonthOf(now)
             current_year == YearOf(now)
             target_year == month_target_year(month_number, current_month, current_year)
             stats == get_stats_by_month(month_number, target_year)
             lookup == [base EXCEPT !.period = <<target_year, month_number>>]
         IN  IF month_in_future(month_number, target_year, current_month, current_year)
             THEN answer([lookup EXCEPT !.outcome = "FUTURE"])
             ELSE IF months_ago(month_number, target_year, current_month, current_year) > 11
             THEN answer([lookup EXCEPT !.outcome = "TOO_OLD"])
             ELSE \E users \in stats.users :
                      answer([lookup EXCEPT
                          !.outcome = charted(stats.total_count),
                          !.n = stats.total_count, !.users = users,
                          !.chart = chart_attempt(stats.total_count > 0, chart_ok),
                          !.data = IF stats.total_count > 0
                                   THEN get_stats_by_days(month_number, target_year)
                                   ELSE <<>>,
                          !.queries = {"get_stats_by_month"} \cup
                                      (IF stats.total_count > 0
                                       THEN {"get_stats_by_days"} ELSE {})])

\* /help: the list of the commands.
cmd_help(chat, user_id) ==
    /\ reply' = IF ~is_correct_chat(chat)
                THEN [NoReply EXCEPT !.op = "help", !.chat = chat, !.outcome = "IGNORED"]
                ELSE [NoReply EXCEPT !.op = "help", !.chat = chat, !.user = user_id,
                                     !.outcome = "OK"]
    /\ UNCHANGED <<config, now, forwards, fwdSeq, bans, banSeq, tasks, overlapped>>

\* ------------------------------------------------------------------ clock
Tick ==
    /\ now + TickMinutes <= MaxTime
    /\ now' = now + TickMinutes
    /\ reply' = NoReply
    /\ UNCHANGED <<config, forwards, fwdSeq, bans, banSeq, tasks, overlapped>>

\* ---------------------------------------------------------- specification
Init ==
    /\ config = AdminOnly
    /\ now = StartTime
    /\ forwards = {}
    /\ fwdSeq = 0
    /\ bans = {}
    /\ banSeq = 0
    /\ tasks = [i \in 1..MaxTasks |-> Idle]
    /\ overlapped = FALSE
    /\ reply = NoReply

\* The rows the model lets the tables take: an update that goes on to insert
\* a row arrives only while the bound leaves room for it.
RoomForForward(user_id) ==
    publish_outcome(user_id) = "ALLOW" => fwdSeq + Cardinality(Busy) < MaxForwards
RoomForBan == banSeq < MaxBans

\* Updates are handled one at a time: a publish command arrives only when no
\* publish handler is suspended in a send; the other commands and the clock
\* run at any moment.  The members publish, the administrators administer.
Next ==
    \/ Tick
    \/ \E u \in Members : Busy = {} /\ RoomForForward(u) /\ cmd_tea(GROUP_ID, u, "text")
    \/ \E u \in Members : Busy = {} /\ RoomForForward(u) /\ cmd_quot(GROUP_ID, u, "text")
    \/ \E i \in 1..MaxTasks : send_and_record(i)
    \/ \E i \in 1..MaxTasks : send_fails(i)
    \/ \E u \in ADMINS : cmd_reset(GROUP_ID, u)
    \/ \E u \in ADMINS, t \in Users :
           RoomForBan /\ cmd_ban(GROUP_ID, u, <<"@ann", "1">>, t)
    \/ \E u \in ADMINS, t \in Users : cmd_unban(GROUP_ID, u, 0, t)

Spec == Init /\ [][Next]_vars

\* The channel sends of one attempt at a time, of every kind of content, each
\* send and the insert after it succeeding or failing.
NextSend ==
    \/ Tick
    \/ \E u \in Users, k \in SentKinds :
           Busy = {} /\ RoomForForward(u) /\ cmd_tea(GROUP_ID, u, k)
    \/ \E u \in Users, k \in SentKinds :
           Busy = {} /\ RoomForForward(u) /\ cmd_quot(GROUP_ID, u, k)
    \/ \E i \in 1..MaxTasks : send_video_note(i)
    \/ \E i \in 1..MaxTasks : send_and_record(i)
    \/ \E i \in 1..MaxTasks : send_fails(i)
    \/ \E i \in 1..MaxTasks : record_fails(i)

SpecSend == Init /\ [][NextSend]_vars

\* The handlers of several updates run as concurrent tasks: a publish handler
\* suspended in a send lets any other handler run.
NextRace ==
    \/ Tick
    \/ \E u \in Users : RoomForForward(u) /\ cmd_tea(GROUP_ID, u, "text")
    \/ \E u \in Users : RoomForForward(u) /\ cmd_quot(GROUP_ID, u, "text")
    \/ \E i \in 1..MaxTasks : send_and_record(i)
    \/ \E i \in 1..MaxTasks : send_fails(i)
    \/ \E u \in ADMINS : cmd_reset(GROUP_ID, u)

SpecRace == Init /\ [][NextRace]_vars

\* The repository's counting called at chosen instants around the reset hour:
\* 03:59, 04:00, 04:01 and 05:00 of day 1, midnight, and the same of day 2.
ResetOfDay(d) == d * MinutesPerDay + RESET_HOUR * 60
CycleInstants ==
    {ResetOfDay(1) - 1, ResetOfDay(1), ResetOfDay(1) + 1, ResetOfDay(1) + 60,
     2 * MinutesPerDay - 1, 2 * MinutesPerDay,
     ResetOfDay(2) - 1, ResetOfDay(2), ResetOfDay(2) + 1, ResetOfDay(2) + 60}

\* The forwards table after one event at each instant of S, inserted in order.
ForwardsAt(S) ==
    {[id |-> Cardinality({x \in S : x <= t}), username |-> "Ann",
      message_type |-> "text", datetime |-> t] : t \in S}

InitCycle ==
    /\ config = AdminOnly
    /\ now \in CycleInstants
    /\ \E S \in SUBSET {t \in CycleInstants : t <= now} :
           /\ Cardinality(S) <= MaxForwards
           /\ forwards = ForwardsAt(S)
           /\ fwdSeq = Cardinality(S)
    /\ bans = {}
    /\ banSeq = 0
    /\ tasks = [i \in 1..MaxTasks |-> Idle]
    /\ overlapped = FALSE
    /\ reply = NoReply

\* db_repo.get_today_count() called at the present instant.
count_today ==
    /\ reply' = [NoReply EXCEPT !.op = "count", !.n = get_today_count]
    /\ UNCHANGED <<config, now, forwards, fwdSeq, bans, banSeq, tasks, overlapped>>

\* The clock read again at a later one of the instants.
Jump ==
    /\ \E t \in CycleInstants : t > now /\ now' = t
    /\ reply' = NoReply
    /\ UNCHANGED <<config, forwards, fwdSeq, bans, banSeq, tasks, overlapped>>

NextCycle ==
    \/ Jump
    \/ count_today
    \/ \E u \in ADMINS : cmd_reset(GROUP_ID, u)
    \/ \E u \in ADMINS : cmd_stats(GROUP_ID, u, "", TRUE)
    \/ \E u \in Members : cmd_tea(GROUP_ID, u, "text")

SpecCycle == InitCycle /\ [][NextCycle]_vars

\* Bans issued again and again, on accounts that share a display name or
\* change it: account 2 as it is and after it took a username, and account 3
\* with the names of account 2.
Accounts == {User(2), [User(2) EXCEPT !.username = "ann2"], User(3)}
BanTargets == {a.id : a \in Accounts} \cup ADMINS

\* A second ban fits after the first.
RoomForBanAgain == banSeq <= MaxBans

\* The clock runs until a one-hour ban issued at the start has expired.
BanHorizon == StartTime + (MaxTicks \div 3) * TickMinutes

\* db_repo.remove_ban(user_id) called for any subject.
revoke_ban(user_id) ==
    /\ remove_ban(user_id)
    /\ reply' = [NoReply EXCEPT !.op = "revoke", !.subject = user_id,
                                !.n = Cardinality(remove_ban_rows(user_id))]
    /\ UNCHANGED <<config, now, forwards, fwdSeq, banSeq, tasks, overlapped>>

\* One attempt at a time; a post that goes out at the start is recorded, and
\* every post can fail.
NextBan ==
    \/ now < BanHorizon /\ Tick
    \/ \E a \in Accounts : Busy = {} /\ publish_by("tea", GROUP_ID, a, "text")
    \/ \E i \in 1..MaxTasks : fwdSeq = 0 /\ now = StartTime /\ send_and_record(i)
    \/ \E i \in 1..MaxTasks : send_fails(i)
    \/ \E u \in ADMINS, h \in {"1", "2"}, t \in BanTargets :
           RoomForBanAgain /\ cmd_ban(GROUP_ID, u, <<"@ann", h>>, t)
    \/ \E u \in ADMINS, t \in BanTargets : cmd_unban(GROUP_ID, u, 0, t)
    \/ \E a \in Accounts : revoke_ban(a.id)

SpecBan == Init /\ [][NextBan]_vars

\* The statistics queries called on a log that grows at chosen instants of
\* 2024: Wednesday 3 January at 00:30 and at 12:00, Thursday 1 February at
\* 01:00, Thursday 29 February at 23:00, Sunday 3 March at 10:00 and Monday 4
\* March at 05:00.
StatsInstants ==
    {DateTime(2024, 1, 3, 0, 30), DateTime(2024, 1, 3, 12, 0),
     DateTime(2024, 2, 1, 1, 0), DateTime(2024, 2, 29, 23, 0),
     DateTime(2024, 3, 3, 10, 0), DateTime(2024, 3, 4, 5, 0)}

InitStats ==
    /\ config = AdminOnly
    /\ now = DateTime(2024, 1, 3, 0, 30)
    /\ forwards = {}
    /\ fwdSeq = 0
    /\ bans = {}
    /\ banSeq = 0
    /\ tasks = [i \in 1..MaxTasks |-> Idle]
    /\ overlapped = FALSE
    /\ reply = NoReply

JumpStats ==
    /\ \E t \in StatsInstants : t > now /\ now' = t
    /\ reply' = NoReply
    /\ UNCHANGED <<config, forwards, fwdSeq, bans, banSeq, tasks, overlapped>>

\* db_repo.add_forward(username, message_type) called at the present instant.
record_forward(user_id, kind) ==
    /\ add_forward(get_user_display_name(User(user_id)), get_message_type(kind))
    /\ reply' = [NoReply EXCEPT !.op = "record", !.user = user_id,
                                !.username = get_user_display_name(User(user_id))]
    /\ UNCHANGED <<config, now, bans, banSeq, tasks, overlapped>>

\* A repository query called at the present instant; period is its arguments.
queried(op, period, n, users, data) ==
    /\ reply' = [NoReply EXCEPT !.op = op, !.period = period, !.n = n,
                                !.users = users, !.data = data]
    /\ UNCHANGED <<config, now, forwards, fwdSeq, bans, banSeq, tasks, overlapped>>

stats_by_hours ==
    LET all_time_start == DateTime(EpochYear, 1, 1, 0, 0)
    IN  queried("hours", <<all_time_start, all_time_end>>, None, <<>>,
                get_stats_by_hours(all_time_start, all_time_end))

stats_by_weekdays ==
    LET all_time_start == DateTime(EpochYear, 1, 1, 0, 0)
    IN  queried("weekdays", <<all_time_start, all_time_end>>, None, <<>>,
                get_stats_by_weekdays(all_time_start, all_time_end))

stats_by_days(month_number, year) ==
    queried("days", <<year, month_number>>, None, <<>>,
            get_stats_by_days(month_number, year))

stats_by_year(year) ==
    \E users \in get_stats_by_year(year).users :
        queried("year", <<year>>, get_stats_by_year(year).total_count, users,
                get_stats_by_year(year).monthly_stats)

users_stats(start_date, end_date) ==
    \E users \in get_users_stats_in_period(start_date, end_date) :
        queried("users", <<start_date, end_date>>, None, users, <<>>)

\* The ranges asked for: the present cycle and the whole log.
StatsRanges ==
    {<<today_reset(now), today_reset(now) + MinutesPerDay>>,
     <<DateTime(EpochYear, 1, 1, 0, 0), all_time_end>>}

NextStats ==
    \/ JumpStats
    \/ \E u \in Users : fwdSeq < MaxForwards /\ record_forward(u, "photo")
    \/ stats_by_hours
    \/ stats_by_weekdays
    \/ \E t \in StatsInstants : stats_by_days(MonthOf(t), YearOf(t))
    \/ stats_by_year(YearOf(now))
    \/ \E r \in StatsRanges : users_stats(r[1], r[2])

SpecStats == InitStats /\ [][NextStats]_vars

\* /stats with a month number, asked at noon of the 15th of every month from
\* January 2024 to January 2025, on a log with events in November 2023 and in
\* February and June 2024.
MonthInstants ==
    {DateTime(2024, m, 15, 12, 0) : m \in 1..12} \cup {DateTime(2025, 1, 15, 12, 0)}
MonthEvents ==
    {DateTime(2023, 11, 20, 9, 0), DateTime(2024, 2, 10, 9, 0), DateTime(2024, 6, 10, 9, 0)}
MonthParams == {IntTokens[i] : i \in 3..14} \cup {"01", "+12", "1_0"}

InitMonth ==
    /\ config = AdminOnly
    /\ now \in MonthInstants
    /\ \E S \in SUBSET {t \in MonthEvents : t <= now} :
           /\ Cardinality(S) <= MaxForwards
           /\ forwards = ForwardsAt(S)
           /\ fwdSeq = Cardinality(S)
    /\ bans = {}
    /\ banSeq = 0
    /\ tasks = [i \in 1..MaxTasks |-> Idle]
    /\ overlapped = FALSE
    /\ reply = NoReply

NextMonth ==
    \E u \in ADMINS, m \in MonthParams, chart_ok \in BOOLEAN :
        cmd_stats(GROUP_ID, u, m, chart_ok)

SpecMonth == InitMonth /\ [][NextMonth]_vars

\* Every command, from the group and from another chat, by an administrator
\* and by a member, with well-formed and with malformed arguments, with the
\* admin-only flags all true, all false, and true for every other command.
\* The chat and the sender of an update: whoever sends it from another chat
\* is not looked at.
Senders == {<<GROUP_ID, u>> : u \in Users} \cup {<<OtherChat, u>> : u \in Members}
StatsParams ==
    {"", "HOUR", "weekday", "YEAR", "All", "1", "01", "13", "abc", "99999999999"}
\* The arguments of /ban and the sender of the replied-to message (None
\* without one): every malformed command aimed at a member, the well-formed
\* one at a member, at an administrator and at nobody.
BanArgs ==
    {<<>>, <<"@ann">>, <<"@ann", "x">>, <<"@ann", "0">>, <<"@ann", "-1">>,
     <<"@ann", "1">>, <<"@ann", "24", "too", "much">>, <<"@ann", "70130000">>,
     <<"@ann", "99999999999999999999">>}
BanInputs ==
    {<<a, t>> : a \in BanArgs, t \in Members}
        \cup {<<(<<"@ann", "1">>), t>> : t \in {None} \cup ADMINS}
\* The number of arguments of /unban and the replied-to sender.
UnbanInputs == {<<0, None>>, <<1, None>>} \cup {<<0, t>> : t \in Members}
OpenToAll ==
    [STATS_ADMIN_ONLY |-> FALSE, RESET_ADMIN_ONLY |-> FALSE,
     BAN_ADMIN_ONLY |-> FALSE, UNBAN_ADMIN_ONLY |-> FALSE, RESET_HOUR |-> 4]
Configs ==
    {AdminOnly, OpenToAll,
     [AdminOnly EXCEPT !.RESET_ADMIN_ONLY = FALSE, !.UNBAN_ADMIN_ONLY = FALSE],
     [AdminOnly EXCEPT !.STATS_ADMIN_ONLY = FALSE, !.BAN_ADMIN_ONLY = FALSE]}

InitCmd ==
    /\ config \in Configs
    /\ now = StartTime
    /\ forwards = {}
    /\ fwdSeq = 0
    /\ bans = {}
    /\ banSeq = 0
    /\ tasks = [i \in 1..MaxTasks |-> Idle]
    /\ overlapped = FALSE
    /\ reply = NoReply

\* The clock is read at the start and one tick later; one post is recorded
\* and one ban is issued.
CmdHorizon == StartTime + (MaxTicks \div 8) * TickMinutes
NoPostYet(user_id) == publish_outcome(user_id) = "ALLOW" => fwdSeq = 0
NoBanYet == banSeq = 0

NextCmd ==
    \/ now < CmdHorizon /\ Tick
    \/ \E s \in Senders :
           Busy = {} /\ NoPostYet(s[2]) /\ cmd_tea(s[1], s[2], "text")
    \/ \E s \in Senders :
           Busy = {} /\ NoPostYet(s[2]) /\ cmd_quot(s[1], s[2], "text")
    \/ \E i \in 1..MaxTasks : send_and_record(i)
    \/ \E i \in 1..MaxTasks : send_fails(i)
    \/ \E s \in Senders, p \in StatsParams, chart_ok \in BOOLEAN :
           cmd_stats(s[1], s[2], p, chart_ok)
    \/ \E s \in Senders : cmd_reset(s[1], s[2])
    \/ \E s \in Senders, b \in BanInputs :
           NoBanYet /\ cmd_ban(s[1], s[2], b[1], b[2])
    \/ \E s \in Senders, b \in UnbanInputs : cmd_unban(s[1], s[2], b[1], b[2])
    \/ \E s \in Senders : cmd_help(s[1], s[2])

SpecCmd == InitCmd /\ [][NextCmd]_vars

\* The cycle start computed with every reset hour, at the first and at the
\* last minute of every hour of day 1, on a log with events at noon of day 0
\* and at midnight and noon of day 1, by each of its users: the count, the
\* reset, /stats without a parameter and the quota check of /tea.
ResetHours == 0..23
HourInstants ==
    {MinutesPerDay + h * 60 + m : h \in 0..23, m \in {0, 59}}
HourEvents == {12 * 60, MinutesPerDay, MinutesPerDay + 12 * 60}

InitHour ==
    /\ config \in {[AdminOnly EXCEPT !.RESET_HOUR = h] : h \in ResetHours}
    /\ now \in HourInstants
    /\ \E S \in SUBSET {t \in HourEvents : t <= now} :
           /\ Cardinality(S) <= MaxForwards
           /\ forwards = ForwardsAt(S)
           /\ fwdSeq = Cardinality(S)
    /\ bans = {}
    /\ banSeq = 0
    /\ tasks = [i \in 1..MaxTasks |-> Idle]
    /\ overlapped = FALSE
    /\ reply = NoReply

NextHour ==
    \/ count_today
    \/ \E u \in ADMINS : cmd_reset(GROUP_ID, u)
    \/ \E u \in ADMINS : cmd_stats(GROUP_ID, u, "", TRUE)
    \/ \E u \in Members : cmd_tea(GROUP_ID, u, "text")

SpecHour == InitHour /\ [][NextHour]_vars

\* get_user_display_name applied to a sender's handle, first name and last
\* name ("" is an absent part): names as they are, names with a space before
\* or after, a blank name and a name of two words.
Handles == {"", "ann", "bob"}
FirstNames == {"", "Ann", " Ann", "Ann ", " ", "Mary Ann"}
LastNames == {"", "Lee", " Lee", "Lee ", " ", "Van Lee"}

display_name(username, first_name, last_name) ==
    /\ reply' = [NoReply EXCEPT
                    !.op = "display_name",
                    !.args = <<username, first_name, last_name>>,
                    !.username = get_user_display_name(
                        [id |-> None, username |-> username,
                         first_name |-> first_name, last_name |-> last_name])]
    /\ UNCHANGED <<config, now, forwards, fwdSeq, bans, banSeq, tasks, overlapped>>

NextName ==
    \E h \in Handles, f \in FirstNames, l \in LastNames : display_name(h, f, l)

SpecName == Init /\ [][NextName]_vars

\* ================================================================== claims
\* The vocabulary of the claims, stated on the tables and the clock.
PublishOps == {"tea", "quot"}
Denials == {"BANNED", "TOO_SOON", "QUOTA_EXCEEDED"}

\* The latest step was a publish attempt in the source chat, decided with the
\* tables and the clock as they are now (the decision changes neither).
Attempted == reply.op \in PublishOps /\ reply.outcome # "IGNORED"

\* A ban row of u has active = true and ban_until > now.
HasActiveBan(u) == \E b \in bans : b.user_id = u /\ b.is_active /\ b.ban_until > now

\* cycleStart: today at resetHour:00, one day back when that is still ahead.
CycleStart(t) ==
    LET today == (t \div MinutesPerDay) * MinutesPerDay + RESET_HOUR * 60
    IN  IF t >= today THEN today ELSE today - MinutesPerDay

CountSince(c) == Cardinality({f \in forwards : f.datetime >= c})

\* countSince(cycleStart) at the present instant.
CycleCount == CountSince(CycleStart(now))

EventTimes == {f.datetime : f \in forwards}

\* now - latestEventTime < cooldownDuration
CooldownRunning == \E t \in EventTimes : now - t < TIMEOUT_MINUTES

\* C1: a publish attempt (/tea or /quot) of a user with an active, unexpired
\* ban row is answered BANNED, whatever the cooldown and the cycle's count.
C1_BannedAlwaysDenied ==
    Attempted /\ HasActiveBan(reply.user) => reply.outcome = "BANNED"

C1_Witness ==
    /\ Attempted /\ reply.outcome = "BANNED"
    /\ CooldownRunning
    /\ CycleCount >= DAILY_LIMIT

\* C2: for a user who is not banned, with the cooldown running and the cycle
\* already holding dailyLimit events, the answer is TOO_SOON and the count of
\* the cycle was not read.
C2_CooldownBeforeQuota ==
    /\ Attempted
    /\ ~HasActiveBan(reply.user)
    /\ CooldownRunning
    /\ CycleCount >= DAILY_LIMIT
    => reply.outcome = "TOO_SOON" /\ reply.today_count = None

C2_Witness ==
    /\ Attempted /\ reply.outcome = "TOO_SOON"
    /\ ~HasActiveBan(reply.user)
    /\ CooldownRunning
    /\ CycleCount >= DAILY_LIMIT

\* C3: a denied attempt posts nothing and leaves both tables as they were; a
\* handler reaches its channel send only with the three checks passed; a row
\* enters forwards only in the step of a handler whose last send returned.
C3_PostAfterChecksRecordAfterPost ==
    [][/\ (reply'.op \in PublishOps /\ reply'.outcome \in Denials)
            => /\ reply'.sent = 0
               /\ forwards' = forwards /\ bans' = bans /\ tasks' = tasks
       /\ \A i \in 1..MaxTasks :
            (tasks[i].pc = "idle" /\ tasks'[i].pc # "idle")
            => /\ reply'.outcome = "ALLOW" /\ reply'.sent = 0
               /\ ~HasActiveBan(tasks'[i].user)
               /\ ~CooldownRunning
               /\ CycleCount < DAILY_LIMIT
       /\ forwards' # forwards /\ ~(forwards' \subseteq forwards)
            => /\ reply'.outcome = "SENT" /\ reply'.sent >= 1
               /\ \E i \in 1..MaxTasks : tasks[i].pc # "idle" /\ tasks'[i].pc = "idle"
      ]_vars

C3_Witness ==
    /\ Attempted /\ reply.outcome = "QUOTA_EXCEEDED" /\ reply.sent = 0
    /\ forwards # {} /\ bans # {}

\* C4: when a channel send of an allowed attempt fails, no event is recorded:
\* the log, and with it the count of the cycle and the latest event time, are
\* what they were.
C4_FailedPostRecordsNothing ==
    [][reply'.outcome = "SEND_ERROR"
         => /\ forwards' = forwards /\ fwdSeq' = fwdSeq
            /\ CycleCount' = CycleCount
            /\ get_last_forward_time' = get_last_forward_time
      ]_vars

C4_Witness ==
    /\ reply.outcome = "SEND_ERROR" /\ reply.sent = 1
    /\ forwards # {}

\* C5 (as claimed): for a user who is not banned, with the cooldown elapsed
\* (no event, or now - latestEventTime >= cooldownDuration), the attempt is
\* answered QUOTA_EXCEEDED exactly when the cycle holds dailyLimit events or more.
C5_QuotaDecidesOnceCooldownElapsed ==
    Attempted /\ ~HasActiveBan(reply.user) /\ ~CooldownRunning
    => (reply.outcome = "QUOTA_EXCEEDED" <=> CycleCount >= DAILY_LIMIT)

\* The quota check was evaluated by the latest step (the cycle's count was read).
QuotaChecked == Attempted /\ reply.today_count # None

\* C6 (as claimed): with dailyLimit events in the cycle the quota check still
\* allows, and with dailyLimit + 1 it denies.
C6_DeniesOnlyAfterOneMore ==
    QuotaChecked
    => /\ CycleCount = DAILY_LIMIT => reply.outcome = "ALLOW"
       /\ CycleCount = DAILY_LIMIT + 1 => reply.outcome = "QUOTA_EXCEEDED"

\* C6 (amended): the quota check denies from the dailyLimit-th event of the
\* cycle on, and allows with fewer; the count it read is the cycle's count.
C6_QuotaBoundary ==
    QuotaChecked
    => /\ reply.today_count = CycleCount
       /\ CycleCount >= DAILY_LIMIT => reply.outcome = "QUOTA_EXCEEDED"
       /\ CycleCount < DAILY_LIMIT => reply.outcome = "ALLOW"

C6_Witness ==
    /\ QuotaChecked /\ reply.outcome = "QUOTA_EXCEEDED"
    /\ CycleCount = DAILY_LIMIT

\* The events of the cycle that starts at c.
InCycle(c) == {f \in forwards : c <= f.datetime /\ f.datetime < c + MinutesPerDay}

\* The cycles that hold an event.
Cycles == {CycleStart(t) : t \in EventTimes}

\* C7: with the updates handled one at a time, no cycle ever holds more than
\* dailyLimit events, whatever publishes, resets, bans, unbans and clock
\* advances came before.
C7_CycleWithinLimit ==
    \A c \in Cycles : Cardinality(InCycle(c)) <= DAILY_LIMIT

C7_Witness ==
    /\ Cardinality(Cycles) >= 2
    /\ Cardinality(InCycle(CycleStart(now))) = DAILY_LIMIT
    /\ Attempted /\ reply.outcome = "QUOTA_EXCEEDED"
    /\ bans # {}

\* C8: a cycle holds more than dailyLimit events only after two attempts
\* overlapped, and then at most one more for each further handler in flight;
\* the witness is the state the race leaves: the attempt that just recorded
\* had read dailyLimit - 1, as the one before it, and the cycle holds
\* dailyLimit + 1.
C8_OvershootOnlyByRace ==
    \A c \in Cycles :
        /\ Cardinality(InCycle(c)) > DAILY_LIMIT => overlapped
        /\ Cardinality(InCycle(c)) <= DAILY_LIMIT + MaxTasks - 1

C8_Witness ==
    /\ overlapped
    /\ reply.outcome = "SENT" /\ reply.today_count = DAILY_LIMIT - 1 /\ reply.n = 0
    /\ CycleCount = DAILY_LIMIT + 1

\* C9 (as claimed): after an event at t, an attempt of a user who is not
\* banned is answered TOO_SOON while now - t < cooldownDuration, and is
\* allowed once now - t >= cooldownDuration if the quota is not exhausted.
C9_CooldownBoundary ==
    Attempted /\ ~HasActiveBan(reply.user) /\ forwards # {}
    => /\ CooldownRunning => reply.outcome = "TOO_SOON"
       /\ (~CooldownRunning /\ CycleCount < DAILY_LIMIT) => reply.outcome = "ALLOW"

\* Any two events are at least cooldownDuration apart.
EventsSpaced ==
    \A f, g \in forwards :
        f.id # g.id =>
            \/ f.datetime - g.datetime >= TIMEOUT_MINUTES
            \/ g.datetime - f.datetime >= TIMEOUT_MINUTES

\* C10 (as claimed): in every reachable state, interleaved handlers included.
C10_SpacedEvenWhenInterleaved == EventsSpaced

\* C10 (amended): as long as no attempt passed its checks while another was
\* in flight, any two events are at least cooldownDuration apart.
C10_SpacedWhenSerial == ~overlapped => EventsSpaced

C10_Witness ==
    /\ ~overlapped
    /\ Cardinality(forwards) >= 2
    /\ reply.outcome = "SENT"

\* The author, as recorded, of the latest event.
LatestAuthors == {f.username : f \in {g \in forwards : g.datetime = get_last_forward_time}}

\* C11: the cooldown is global: while it runs, an attempt of any user who is
\* not banned is answered TOO_SOON, whoever published last and with either
\* command, and two users who are not banned always get the same answer.
C11_CooldownGlobal ==
    /\ Attempted /\ ~HasActiveBan(reply.user) /\ CooldownRunning
           => reply.outcome = "TOO_SOON"
    /\ \A u, v \in Users :
           ~HasActiveBan(u) /\ ~HasActiveBan(v) => publish_outcome(u) = publish_outcome(v)

C11_Witness ==
    /\ Attempted /\ reply.outcome = "TOO_SOON" /\ CooldownRunning
    /\ get_user_display_name(Profile(reply.user)) \notin LatestAuthors
    /\ reply.op = "quot"

\* C12: the count get_today_count returns is the number of events with
\* timestamp >= the cycleStart derived from now; with resetHour = 4, at 05:00
\* it leaves out the events up to 03:59 of that day and takes in those from
\* 04:01 on.
C12_CycleRollover ==
    reply.op = "count" =>
        LET midnight == (now \div MinutesPerDay) * MinutesPerDay
        IN  /\ reply.n = Cardinality({f \in forwards : f.datetime >= CycleStart(now)})
            /\ (RESET_HOUR = 4 /\ now = midnight + 5 * 60) =>
                   /\ reply.n <= Cardinality({f \in forwards :
                                                 f.datetime > midnight + 3 * 60 + 59})
                   /\ reply.n >= Cardinality({f \in forwards :
                                                 f.datetime >= midnight + 4 * 60 + 1})

C12_Witness ==
    LET midnight == (now \div MinutesPerDay) * MinutesPerDay
    IN  /\ reply.op = "count" /\ now = midnight + 5 * 60
        /\ EventTimes = {midnight + 3 * 60 + 59, midnight + 4 * 60 + 1}
        /\ reply.n = 1

\* The ban rows of subject u.
BansOf(u) == {b \in bans : b.user_id = u}

\* C13: once now >= ban_until for every ban of a user, the lookup finds no
\* ban and the user's attempts are not answered BANNED, though the rows are
\* still active and nobody unbanned.
C13_BanExpires ==
    /\ \A u \in BanTargets :
           (\A b \in BansOf(u) : now >= b.ban_until) => is_user_banned(u) = None
    /\ (Attempted /\ \A b \in BansOf(reply.user) : now >= b.ban_until)
           => reply.outcome # "BANNED"

C13_Witness ==
    /\ Attempted /\ reply.outcome # "BANNED"
    /\ BansOf(reply.user) # {}
    /\ \A b \in BansOf(reply.user) : b.is_active /\ b.ban_until = now

\* C14: a /ban whose target is an administrator is not carried out, and no
\* ban row has an administrator as its subject.
C14_AdminImmunity ==
    /\ (reply.op = "ban" /\ reply.subject \in ADMINS) => reply.outcome # "OK"
    /\ \A b \in bans : b.user_id \notin ADMINS

C14_Witness ==
    /\ reply.op = "ban" /\ reply.subject \in ADMINS
    /\ reply.outcome = "ADMIN_TARGET"
    /\ bans # {}

\* C15 (as claimed): every subject has at most one ban row that is active
\* and unexpired.
C15_OneActiveBanPerSubject ==
    \A u \in BanTargets :
        Cardinality({b \in BansOf(u) : b.is_active /\ b.ban_until > now}) <= 1

\* The ban row the BANNED answer shows.
ShownBan == CHOOSE b \in bans : b.id = reply.n

\* C16: the ban shown in a BANNED answer is an active, unexpired ban of the
\* sender, and none of the sender's active, unexpired bans was created later.
C16_MostRecentBanShown ==
    (Attempted /\ reply.outcome = "BANNED") =>
        /\ \E b \in bans : b.id = reply.n
        /\ ShownBan.user_id = reply.user
        /\ ShownBan.is_active /\ ShownBan.ban_until > now
        /\ \A c \in BansOf(reply.user) :
               (c.is_active /\ c.ban_until > now) => c.created_at <= ShownBan.created_at

C16_Witness ==
    /\ Attempted /\ reply.outcome = "BANNED"
    /\ \E c \in BansOf(reply.user) :
           /\ c.is_active /\ c.ban_until > now
           /\ c.created_at < ShownBan.created_at
           /\ c.ban_until > ShownBan.ban_until

\* C17: revoking the bans of a subject (remove_ban called directly, or by an
\* accepted /unban) turns every active row of the subject inactive, reports
\* their number, leaves every other row and the forwards table as they were,
\* and the subject has no active ban afterwards.
C17_RevokeBan ==
    [][\A u \in BanTargets :
          (/\ reply'.subject = u
           /\ \/ reply'.op = "revoke"
              \/ reply'.op = "unban" /\ reply'.outcome \in {"OK", "ERROR"})
          => /\ bans' = {IF b.user_id = u THEN [b EXCEPT !.is_active = FALSE] ELSE b :
                            b \in bans}
             /\ reply'.n = Cardinality({b \in BansOf(u) : b.is_active})
             /\ forwards' = forwards /\ fwdSeq' = fwdSeq
             /\ is_user_banned(u)' = None]_vars

C17_Witness ==
    /\ reply.op = "revoke" /\ reply.n = 2
    /\ Cardinality({b \in BansOf(reply.subject) : ~b.is_active}) = 2

\* C18: the ban check goes by the account id alone: an attempt is answered
\* BANNED exactly when the sender's id has an active, unexpired ban, whatever
\* display name the sender has now and whatever names the ban rows carry.
C18_BanKeyedById ==
    Attempted => (reply.outcome = "BANNED" <=> HasActiveBan(reply.user))

\* Some active, unexpired ban row carries the display name of the sender.
NameBanned == \E b \in bans : b.username = reply.username /\ b.is_active /\ b.ban_until > now

C18_Witness ==
    /\ Attempted /\ reply.outcome = "BANNED"
    /\ ~NameBanned

\* The step is a reset that was carried out.
ResetDone == reply'.op = "reset" /\ reply'.outcome = "OK"

\* C19: after a reset the cycle's count is 0; the reset reports the count it
\* found, and one that finds 0 (as a reset right after a reset does) deletes
\* nothing and changes neither table.
C19_ResetIdempotent ==
    [][ResetDone =>
          /\ CycleCount' = 0
          /\ reply'.n = CycleCount
          /\ CycleCount = 0 => (forwards' = forwards /\ bans' = bans /\ fwdSeq' = fwdSeq)
          /\ (reply.op = "reset" /\ reply.outcome = "OK") =>
                 (reply'.n = 0 /\ forwards' = forwards)]_vars

C19_Witness ==
    /\ reply.op = "reset" /\ reply.outcome = "OK" /\ reply.n = 0
    /\ forwards # {}
    /\ fwdSeq > Cardinality(forwards)

\* C20: a recorded event is never altered; events disappear only in a reset
\* that was carried out, which removes exactly the events with timestamp >=
\* cycleStart, reports their number and leaves the older events and the bans
\* as they were.
C20_AppendOnly ==
    [][/\ \A f \in forwards, g \in forwards' : g.id = f.id => g = f
       /\ ~(forwards \subseteq forwards') => ResetDone
       /\ ResetDone =>
              /\ forwards' = {f \in forwards : f.datetime < CycleStart(now)}
              /\ reply'.n = Cardinality(forwards \ forwards')
              /\ bans' = bans]_vars

C20_Witness ==
    /\ reply.op = "reset" /\ reply.outcome = "OK" /\ reply.n >= 1
    /\ forwards # {}
    /\ bans # {}

\* C21: no command deletes a ban row, resetToday included: every row of bans
\* is still there after every step, with every field but active as it was
\* created, and active goes from true to false only, never back.
C21_BanRowsKept ==
    [][\A b \in bans :
           \E c \in bans' :
               /\ c.id = b.id
               /\ [c EXCEPT !.is_active = b.is_active] = b
               /\ (c.is_active => b.is_active)]_vars

C21_Witness ==
    /\ reply.op = "reset" /\ reply.outcome = "OK" /\ reply.n >= 1
    /\ \E b \in bans : ~b.is_active

\* C22: at every instant and with every reset hour the quota check, the
\* 'today' figure of /stats and resetToday work on one cycle: the count /stats shows and the count a publish attempt compared
\* with dailyLimit are the number of events since cycleStart, and those are
\* the events a resetToday at the same instant deletes, all of them and no
\* other.
C22_SameCycleStart ==
    /\ reset_today_rows = {f \in forwards : f.datetime >= CycleStart(now)}
    /\ (reply.op = "stats" /\ reply.outcome = "TODAY")
           => reply.today_count = Cardinality(reset_today_rows)
    /\ (Attempted /\ reply.today_count # None)
           => reply.today_count = Cardinality(reset_today_rows)
    /\ (reply.op = "reset" /\ reply.outcome = "OK") => get_today_count = 0

C22_Witness ==
    /\ reply.op = "stats" /\ reply.outcome = "TODAY" /\ reply.today_count >= 1
    /\ RESET_HOUR = 23 /\ HourOf(now) < RESET_HOUR
    /\ \E f \in forwards : f.datetime < CycleStart(now)

\* The events of the log inside [start, end).
EventsIn(start, end) == {f \in forwards : start <= f.datetime /\ f.datetime < end}

\* C23: every histogram is dense: 24 entries for the hours 0..23 in order, 7
\* for the weekdays 0..6, 12 for the months 1..12 and daysInMonth for the days
\* 1..daysInMonth of the month asked for, whatever the log holds.
C23_HistogramsDense ==
    /\ reply.op = "hours"
           => /\ Len(reply.data) = 24
              /\ \A i \in 1..24 : reply.data[i].hour = i - 1
    /\ reply.op = "weekdays"
           => /\ Len(reply.data) = 7
              /\ \A i \in 1..7 : reply.data[i].weekday = i - 1
    /\ reply.op = "days"
           => /\ Len(reply.data) = DaysInMonth(reply.period[1], reply.period[2])
              /\ \A i \in 1..Len(reply.data) : reply.data[i].day = i
    /\ reply.op = "year"
           => /\ Len(reply.data) = 12
              /\ \A i \in 1..Len(reply.data) : reply.data[i].month = i

\* C24: an event on local weekday d (0 = Monday) is counted in bucket d of
\* the weekday histogram, at every hour of that day.
C24_WeekdayBucket ==
    reply.op = "weekdays"
    => \A d \in 0..6 :
           reply.data[d + 1].count =
               Cardinality({f \in EventsIn(reply.period[1], reply.period[2]) :
                               WeekdayOf(f.datetime) = d})

\* C26: usersRanked(start, end) has one entry for every user with an event in
\* [start, end), the user of an event just recorded inside the range
\* included, with that user's number of events in the range as its count; the
\* entries come with the counts descending and the counts add up to
\* countInRange(start, end).
C26_RankedAfterRecord ==
    reply.op = "users"
    => LET rows == EventsIn(reply.period[1], reply.period[2])
           names == {f.username : f \in rows}
       IN  /\ Len(reply.users) = Cardinality(names)
           /\ \A u \in names :
                  \E i \in 1..Len(reply.users) :
                      reply.users[i] =
                          [username |-> u,
                           count |-> Cardinality({f \in rows : f.username = u})]
           /\ \A i, j \in 1..Len(reply.users) :
                  i < j => reply.users[i].count >= reply.users[j].count
           /\ SumCounts(reply.users) = Cardinality(rows)

\* The ranking of the present cycle right after an event was recorded in it:
\* the recorder enters with its first event, behind a user with two.
C26_Witness ==
    /\ reply.op = "users"
    /\ reply.period = <<CycleStart(now), CycleStart(now) + MinutesPerDay>>
    /\ Len(reply.users) = 2
    /\ reply.users[1].count = 2
    /\ \E f \in forwards :
           /\ f.id = fwdSeq /\ f.datetime = now
           /\ reply.users[2] = [username |-> f.username, count |-> 1]

\* The latest step was /stats with a month number in 1..12.
MonthLookup == reply.op = "stats" /\ Len(reply.period) = 2

\* The months from the looked-up occurrence (year ty, month m) to the current
\* month.
MonthsBack(ty, m) == (YearOf(now) * 12 + MonthOf(now)) - (ty * 12 + m)

\* C25: with the current month c of year y, month m is looked up in year y
\* when m <= c and in year y - 1 when m > c; a lookup whose occurrence lies
\* ahead of the current month or more than 11 months back is rejected, and a
\* lookup answered with statistics is for a month 0..11 months back.
C25_MonthLookup ==
    MonthLookup
    => LET ty == reply.period[1]
           m == reply.period[2]
       IN  /\ m = ParseInt(reply.param)
           /\ ty = (IF m <= MonthOf(now) THEN YearOf(now) ELSE YearOf(now) - 1)
           /\ (MonthsBack(ty, m) < 0 \/ MonthsBack(ty, m) > 11)
                  => reply.outcome \in {"FUTURE", "TOO_OLD"}
           /\ reply.outcome \in {"TEXT", "CHART", "CHART_FAILED"}
                  => MonthsBack(ty, m) \in 0..11

\* A month later in the calendar than the current one, found in the previous
\* year with its events.
C25_Witness ==
    /\ MonthLookup /\ reply.outcome = "CHART" /\ reply.n >= 1
    /\ reply.period[2] > MonthOf(now)
    /\ reply.period[1] = YearOf(now) - 1

\* The commands, and the repository's statistics queries.
CommandOps == {"tea", "quot", "stats", "reset", "ban", "unban", "help"}
AggregationQueries ==
    {"get_monthly_top_users", "get_stats_by_month", "get_stats_by_year",
     "get_stats_all_time", "get_stats_by_hours", "get_stats_by_weekdays",
     "get_stats_by_days", "get_users_stats_in_period"}

\* The step leaves both tables and their id counters as they were.
TablesKept ==
    /\ forwards' = forwards /\ fwdSeq' = fwdSeq
    /\ bans' = bans /\ banSeq' = banSeq

\* C27: a /stats step, whatever its parameter and its outcome (a chart that
\* fails included), leaves the forwards and bans tables as they were; a
\* publish attempt calls no statistics query: of the forwards table it reads
\* the latest event and the count of the cycle only.
C27_StatsReadOnly ==
    [][/\ reply'.op = "stats" => TablesKept
       /\ reply'.op \in PublishOps \cup {"publish"}
              => /\ reply'.queries \cap AggregationQueries = {}
                 /\ reply'.queries \subseteq
                        {"is_user_banned", "get_last_forward_time", "get_today_count"}]_vars

C27_Witness ==
    /\ reply.op = "stats" /\ reply.outcome = "CHART_FAILED"
    /\ reply.param = "hour" /\ reply.n >= 1
    /\ bans # {}

\* C28: a command that comes from another chat than the source chat gets no
\* answer, starts no channel post, reads nothing and changes neither table.
C28_OtherChatIgnored ==
    [][(reply'.op \in CommandOps /\ reply'.chat # GROUP_ID)
          => /\ reply' = [NoReply EXCEPT !.op = reply'.op, !.chat = reply'.chat,
                                         !.outcome = "IGNORED"]
             /\ tasks' = tasks
             /\ TablesKept]_vars

C28_Witness ==
    /\ reply.op = "reset" /\ reply.chat = OtherChat
    /\ ~RESET_ADMIN_ONLY
    /\ get_today_count >= 1
    /\ \E b \in bans : b.is_active

\* The ways a ban command fails validation: fewer than two arguments, a
\* duration that is no integer or is not positive, no replied-to message.
BanInvalid(r) ==
    \/ Len(r.args) < 2
    \/ ~IsIntToken(r.args[2])
    \/ IsHugeInt(r.args[2]) /\ SubSeq(IntStrip(r.args[2]), 1, 1) = "-"
    \/ ~IsHugeInt(r.args[2]) /\ ParseInt(r.args[2]) <= 0
    \/ r.subject = None

\* A stats parameter that is neither a keyword nor a month number in 1..12.
StatsInvalid(r) ==
    /\ r.param \notin {"", "hour", "hours", "weekday", "weekdays", "year", "all"}
    /\ (IsIntToken(r.param) => IsHugeInt(r.param) \/ ParseInt(r.param) \notin 1..12)

\* The command of the step was let in: sent in the source chat and not
\* refused for want of rights.
Served(r) == r.chat = GROUP_ID /\ r.outcome # "REFUSED"

\* C29: a command that fails validation is answered with a corrective
\* message and changes nothing: no ban row for an invalid ban command, both
\* tables as they were for a stats command with a bad parameter and for an
\* unban command without a replied-to message.
C29_InvalidMutatesNothing ==
    [][/\ (reply'.op = "ban" /\ Served(reply') /\ BanInvalid(reply'))
              => /\ reply'.outcome \in {"BAD_FORMAT", "BAD_HOURS", "NEED_REPLY"}
                 /\ TablesKept
       /\ (reply'.op = "stats" /\ Served(reply') /\ StatsInvalid(reply'))
              => reply'.outcome = "INVALID" /\ reply'.queries = {} /\ TablesKept
       /\ (reply'.op = "unban" /\ Served(reply') /\ reply'.subject = None)
              => /\ reply'.outcome \in {"BAD_FORMAT", "NEED_REPLY"}
                 /\ TablesKept]_vars

C29_Witness ==
    /\ reply.op = "ban" /\ reply.outcome = "BAD_HOURS"
    /\ reply.args = <<"@ann", "0">> /\ reply.subject \in Members
    /\ bans = {} /\ forwards # {}

\* The admin-only flag of a command.
AdminOnlyFlag(op) ==
    CASE op = "stats" -> STATS_ADMIN_ONLY
      [] op = "reset" -> RESET_ADMIN_ONLY
      [] op = "ban" -> BAN_ADMIN_ONLY
      [] op = "unban" -> UNBAN_ADMIN_ONLY

\* C30: stats, reset, ban and unban sent in the source chat: with the
\* command's flag true a caller outside the administrators is refused,
\* whatever the arguments, with no repository call and both tables as they
\* were; with the flag false, and for an administrator, nobody is refused.
C30_AdminOnlyFlags ==
    [][(reply'.op \in {"stats", "reset", "ban", "unban"} /\ reply'.chat = GROUP_ID)
          => IF AdminOnlyFlag(reply'.op) /\ reply'.user \notin ADMINS
             THEN /\ reply'.outcome = "REFUSED"
                  /\ reply'.queries = {}
                  /\ TablesKept
             ELSE reply'.outcome # "REFUSED"]_vars

\* A member refused a ban command that has no arguments, while reset is open
\* to all.
C30_Witness ==
    /\ reply.op = "ban" /\ reply.outcome = "REFUSED" /\ reply.user \in Members
    /\ reply.args = <<>>
    /\ BAN_ADMIN_ONLY /\ ~RESET_ADMIN_ONLY
    /\ forwards # {}

\* The parameters of /stats that come with a chart: a keyword or a month
\* number.
IsChartParam(p) ==
    \/ p \in {"hour", "hours", "weekday", "weekdays", "year"}
    \/ IsIntToken(p) /\ ~IsHugeInt(p) /\ ParseInt(p) \in 1..12

\* C31: when the chart of a stats request with parameter hour, weekday, year
\* or a month number cannot be drawn or sent, the request is answered with
\* the textual statistics (the total and every user's count) and a note, not
\* with the failure message of the command.
C31_ChartFailureStillText ==
    (reply.op = "stats" /\ reply.chart = "FAILED")
    => /\ IsChartParam(reply.param)
       /\ reply.outcome = "CHART_FAILED"
       /\ reply.n >= 1
       /\ Len(reply.users) >= 1
       /\ SumCounts(reply.users) = reply.n

C31_Witness ==
    /\ reply.op = "stats" /\ reply.chart = "FAILED"
    /\ reply.param \in MonthParams
    /\ reply.n >= 1

\* C32: the ids of the events grow in the order the events are recorded,
\* across resets: a new event's id is greater than the id of every event in
\* the log and than the greatest id ever assigned, so an id that a reset
\* freed is not given out again; no step lowers the greatest id assigned.
C32_IdsIncreasing ==
    [][/\ fwdSeq' >= fwdSeq
       /\ \A f \in forwards' : f.id <= fwdSeq'
       /\ \A f, g \in forwards' : f.id = g.id => f = g
       /\ \A g \in forwards' \ forwards :
              /\ g.id > fwdSeq
              /\ \A f \in forwards : g.id > f.id]_vars

\* An event recorded after a reset deleted the event before it.
C32_Witness ==
    /\ reply.outcome = "SENT"
    /\ fwdSeq >= 2
    /\ \E g \in forwards : g.id = fwdSeq /\ g.datetime = now
    /\ \A f \in forwards : f.id # fwdSeq - 1

\* displayName as claimed: '@' + handle with a handle; else the present parts
\* of first and last name, trimmed, joined by one space; else 'Anonymous'.
DisplayNameClaimed(h, f, l) ==
    IF h # "" THEN "@" \o h
    ELSE IF Strip(f) # "" /\ Strip(l) # "" THEN Strip(f) \o " " \o Strip(l)
    ELSE IF Strip(f) # "" THEN Strip(f)
    ELSE IF Strip(l) # "" THEN Strip(l)
    ELSE "Anonymous"

\* C33 (as claimed): the display name is '@' + handle, else the trimmed
\* present name parts joined by one space, else 'Anonymous', and is never
\* empty.
C33_DisplayName ==
    reply.op = "display_name"
    => /\ reply.username = DisplayNameClaimed(reply.args[1], reply.args[2], reply.args[3])
       /\ reply.username # ""

\* The step ends a publish attempt that had put a message into the channel.
PostedAndFinished ==
    reply'.op = "publish" /\ reply'.outcome # "SENDING" /\ reply'.sent >= 1

\* C34 (as claimed): an attempt that put at least one message into the
\* channel ends with exactly one event recorded for it, also when the caption
\* of a video note cannot be sent after the note, and when the insert fails
\* after the post.
C34_PostMatchedByEvent ==
    [][PostedAndFinished
          => /\ Cardinality(forwards' \ forwards) = 1
             /\ \A f \in forwards' \ forwards : f.datetime = now]_vars

\* The rows of a user's bans that were not revoked, and the latest ban_until
\* among them.
ActiveRows(u) == {b \in BansOf(u) : b.is_active}
LatestBanUntil(u) ==
    CHOOSE t \in {b.ban_until : b \in ActiveRows(u)} :
        \A b \in ActiveRows(u) : b.ban_until <= t

\* C35: an attempt is answered BANNED exactly while the sender has an active
\* ban row and now is before the latest ban_until among the sender's active
\* rows, whichever of them was created last.
C35_BannedUntilLatest ==
    Attempted =>
        (reply.outcome = "BANNED"
             <=> (ActiveRows(reply.user) # {} /\ now < LatestBanUntil(reply.user)))

\* Banned by an earlier, longer ban after the ban created last has expired.
C35_Witness ==
    /\ Attempted /\ reply.outcome = "BANNED"
    /\ \E c \in ActiveRows(reply.user) :
           /\ c.id > ShownBan.id /\ c.created_at >= ShownBan.created_at
           /\ c.ban_until <= now

\* An event of the present cycle, and one from before it, lies within
\* cooldownDuration of now.
InCycleWithinCooldown ==
    \E f \in forwards : f.datetime >= CycleStart(now) /\ now - f.datetime < TIMEOUT_MINUTES
PreCycleWithinCooldown ==
    \E f \in forwards : f.datetime < CycleStart(now) /\ now - f.datetime < TIMEOUT_MINUTES

\* C36 (as claimed): after a reset every surviving event is from before the
\* cycle and the cooldown check goes by the latest of them: a cooldown that
\* ran only because of an event of the present cycle no longer denies, one
\* that runs because of an earlier event within cooldownDuration still does,
\* and with an empty log the check passes.
C36_ResetFreesCooldown ==
    [][ResetDone =>
          /\ \A f \in forwards' : f.datetime < CycleStart(now)
          /\ forwards' = {} => ~cooldown_denies'
          /\ PreCycleWithinCooldown => cooldown_denies'
          /\ (cooldown_denies /\ InCycleWithinCooldown /\ ~PreCycleWithinCooldown)
                 => ~cooldown_denies']_vars

\* C37 (as claimed): the counts of the hour histogram and of the weekday
\* histogram of a range each add up to the number of events in the range, and
\* the counts of the day-of-month histogram add up to the total reported for
\* the month, an event of the first hours of the month's first day included.
C37_HistogramsLoseNoEvent ==
    /\ reply.op \in {"hours", "weekdays"}
           => SumCounts(reply.data)
                  = Cardinality(EventsIn(reply.period[1], reply.period[2]))
    /\ reply.op = "days"
           => SumCounts(reply.data)
                  = get_stats_by_month(reply.period[2], reply.period[1]).total_count

\* The events of day d of a month of the configured timezone.
EventsOnDay(year, month_number, d) ==
    {f \in forwards : /\ YearOf(f.datetime) = year
                      /\ MonthOf(f.datetime) = month_number
                      /\ DayOf(f.datetime) = d}

\* C38 (as claimed): an event recorded at hour h of the configured timezone
\* is counted in bucket h of the hour histogram, and one recorded on day d of
\* a month in bucket d of that month's day histogram.
C38_CivilTimeBuckets ==
    /\ reply.op = "hours"
           => \A h \in 0..23 :
                  reply.data[h + 1].count =
                      Cardinality({f \in EventsIn(reply.period[1], reply.period[2]) :
                                      HourOf(f.datetime) = h})
    /\ reply.op = "days"
           => \A d \in 1..Len(reply.data) :
                  reply.data[d].count =
                      Cardinality(EventsOnDay(reply.period[1], reply.period[2], d))

\* The claimed properties of a cycle start c at the present instant: not
\* after now and less than 24 hours back, on the hour resetHour, today when
\* the hour of now has reached resetHour and yesterday when it has not.
IsCycleStart(c) ==
    LET today == (now \div MinutesPerDay) * MinutesPerDay
    IN  /\ c <= now /\ now < c + MinutesPerDay
        /\ HourOf(c) = RESET_HOUR /\ c % 60 = 0
        /\ HourOf(now) >= RESET_HOUR => c \div MinutesPerDay = today \div MinutesPerDay
        /\ HourOf(now) < RESET_HOUR => c \div MinutesPerDay = today \div MinutesPerDay - 1

\* C39: for every instant and every reset hour 0..23 the cycle start that
\* get_today_count and reset_today compute is the latest resetHour:00 not
\* after now, and the count and the reset go by it.
C39_CycleStartEveryHour ==
    /\ RESET_HOUR \in 0..23
    /\ IsCycleStart(today_reset(now))
    /\ IsCycleStart(reset_today_start(now))
    /\ reply.op = "count"
           => reply.n = Cardinality({f \in forwards : f.datetime >= today_reset(now)})

\* The count taken at the very minute of a reset hour that is not the
\* default: the event of that minute is in the cycle, those before are not.
C39_Witness ==
    /\ reply.op = "count" /\ reply.n = 1
    /\ RESET_HOUR = 12 /\ today_reset(now) = now
    /\ Cardinality(forwards) = 3

\* The step takes the clock from a cycle in which the quota denied an attempt
\* past the next resetHour:00, with no reset and no new event in between.
PassesResetAfterDenial ==
    /\ Attempted /\ reply.outcome = "QUOTA_EXCEEDED"
    /\ CycleStart(now') = CycleStart(now) + MinutesPerDay
    /\ forwards' = forwards

\* C40: once the clock has passed the next resetHour:00 after a
\* QUOTA_EXCEEDED answer, the count of the cycle is 0 and the attempt of
\* every user who is not banned, the cooldown elapsed, is allowed; the events
\* of the cycle before are still in the log and in the totals of their
\* month, their year and all time.
C40_QuotaEndsWithCycle ==
    [][PassesResetAfterDenial =>
          /\ CycleCount' = 0 /\ get_today_count' = 0
          /\ \A u \in Users :
                 (~HasActiveBan(u)' /\ ~CooldownRunning') => publish_outcome(u)' = "ALLOW"
          /\ Cardinality({f \in forwards' : f \in InCycle(CycleStart(now))}) >= DAILY_LIMIT
          /\ \A f \in InCycle(CycleStart(now)) :
                 /\ f \in forwards'
                 /\ get_stats_by_month(MonthOf(f.datetime), YearOf(f.datetime))'.total_count
                        >= Cardinality(InCycle(CycleStart(now)))
                 /\ get_stats_by_year(YearOf(f.datetime))'.total_count
                        >= Cardinality(InCycle(CycleStart(now)))
          /\ get_stats_all_time'.total_count = Cardinality(forwards)]_vars

\* An attempt allowed with count 0 in the cycle after one that holds
\* dailyLimit events.
C40_Witness ==
    /\ Attempted /\ reply.outcome = "ALLOW" /\ reply.today_count = 0
    /\ Cardinality(InCycle(CycleStart(now) - MinutesPerDay)) >= DAILY_LIMIT
    /\ Cardinality(forwards) >= DAILY_LIMIT

====
